---- MODULE Spec2Model ----
(***************************************************************************)
(* Model of valence (cmd/valence and its embedded archive package): the    *)
(* request facade of atomHandler (path normalizer, routing decision engine *)
(* and static asset resolver), the archive materializer EnsureExtracted,   *)
(* the dependency readiness gate, the boot sequence of run(), the          *)
(* shutdown of serveWithShutdown and the storage-locations endpoint.       *)
(* Paths are strings; the string and path functions of the Go standard     *)
(* library that the code calls are computed character by character.        *)
(***************************************************************************)
EXTENDS Naturals, Sequences, FiniteSets, TLC

VARIABLES
    fs,            \* the filesystem: [files |-> set of paths, dirs |-> set of paths]
    atomDataDir,   \* atomHandler.atomDataDir ("" when no overlay root is configured)
    pc,            \* position of the request in flight: "idle", "pending", "done"
    rawPath,       \* r.URL.Path as received
    reqPath,       \* the path used for classification
    label,         \* routeDecision.label
    handler,       \* routeDecision.handler
    assetPath,     \* the file handed to http.ServeFile ("" when none)
    status,        \* statusRecorder.status after the handler ran
    cacheControl,  \* the Cache-Control response header ("" when not set)
    bridge,        \* what the legacy runtime bridge did with the request ("" when not called)
    method,        \* r.Method
    phpReq,        \* the request frontControllerRequest synthesized (NoPhpReq when none)
    bytes,         \* statusRecorder.bytes after the handler ran
    routeLog,      \* the records logRouteDecision printed for the request in flight
    env,           \* the process environment os.Getenv reads
    bootEnv,       \* the process environment when run() began
    spc,           \* the step serveWithShutdown is at
    sig,           \* ctx.Done(): an interrupt or termination signal arrived
    listener,      \* srv.ListenAndServe: "open", "closing" once told to stop, "closed" once it returned
    errCh,         \* the buffered channel errCh (NoErr when empty)
    conns,         \* connection id -> [open, h]: the connection and its handler goroutine
    elapsed,       \* seconds since srv.Shutdown was called
    shutLog,       \* what serveWithShutdown logged
    tornDown,      \* shutdownPHPRuntime ran
    apiReq,        \* the request storageLocationsHandler is given
    apiResp,       \* the response storageLocationsHandler wrote (NoApiResp before)
    disk,          \* the disk of the archive materializer: path -> node
    archive,       \* the embedded snapshot: [available, entries]
    epc,           \* position inside EnsureExtracted
    idx,           \* index of the archive entry extractArchive is at
    force,         \* the force argument of the call
    didExtract,    \* first result of EnsureExtracted
    err,           \* second result of EnsureExtracted ("" for nil)
    diskAtCall,    \* the disk when the call began
    ioFailed,      \* an I/O operation of the call failed
    extractedAll,  \* extractArchive wrote every entry of the tree in the target
    prev,          \* results of the call before this one
    dsn,           \* ATOM_MYSQL_DSN
    esHost,        \* ATOM_ELASTICSEARCH_HOST
    gname,         \* the target waitForTCP probes ("" outside the gate)
    attempt,       \* failed dials of waitForTCP's loop so far
    slept,         \* seconds waitForTCP slept after its last failed dial
    gateErr,       \* the error of waitForDependencies
    reached,       \* the targets a dial connected to
    bpc,           \* the step run() is at
    bootErr,       \* the error run() returned ("" when none)
    ran            \* how often run() entered the materializer and the gate

reqVars == <<fs, atomDataDir, pc, rawPath, reqPath, label, handler, assetPath,
             status, cacheControl, bridge, method, phpReq, bytes, routeLog>>

envVars == <<env, bootEnv>>

srvVars == <<spc, sig, listener, errCh, conns, elapsed, shutLog, tornDown>>

apiVars == <<apiReq, apiResp>>

archVars == <<disk, archive, epc, idx, force, didExtract, err, diskAtCall,
              ioFailed, extractedAll, prev>>

gateVars == <<dsn, esHost, gname, attempt, slept, gateErr, reached>>

bootVars == <<bpc, bootErr, ran>>

vars == <<reqVars, archVars, gateVars, bootVars, envVars, srvVars, apiVars>>

(***************************************************************************)
(* Bounds of the model.                                                    *)
(***************************************************************************)
\* longest raw request path, in pieces of RoutePieces, that Receive draws
MaxPieces == 2
\* longest raw path, in pieces of NormPieces, that InitNormalizer draws
MaxNormPieces == 4
\* most files and directories a filesystem state of Init holds
MaxFiles == 2
\* longest archive, in entries of EntryPool, that InitArchive draws
MaxEntries == 2
\* most symbolic links one path walk follows
MaxLinkHops == 2
\* most connections the server holds at a time
MaxConns == 2

(***************************************************************************)
(* strings.HasPrefix, strings.TrimPrefix, strings.Contains and a suffix    *)
(* test, on strings.                                                       *)
(***************************************************************************)
HasPrefix(s, p) == Len(s) >= Len(p) /\ SubSeq(s, 1, Len(p)) = p

HasSuffix(s, p) == Len(s) >= Len(p) /\ SubSeq(s, Len(s) - Len(p) + 1, Len(s)) = p

TrimPrefix(s, p) == IF HasPrefix(s, p) THEN SubSeq(s, Len(p) + 1, Len(s)) ELSE s

Contains(s, sub) ==
    \E i \in 1..(Len(s) + 1) :
        i + Len(sub) - 1 <= Len(s) /\ SubSeq(s, i, i + Len(sub) - 1) = sub

\* the byte of s at the 0-based index i, "" past the end
ByteAt(s, i) == IF i < Len(s) THEN SubSeq(s, i + 1, i + 1) ELSE ""

(***************************************************************************)
(* path.Clean of the Go standard library, as its loop runs: r is the read  *)
(* index into path, out the output buffer (out.w is Len(out)), dotdot the  *)
(* index below which out cannot backtrack.                                 *)
(***************************************************************************)
RECURSIVE Backtrack(_, _, _)
Backtrack(out, w, dotdot) ==
    IF w > dotdot /\ ByteAt(out, w) # "/"
    THEN Backtrack(out, w - 1, dotdot)
    ELSE SubSeq(out, 1, w)

\* index of the first "/" of path at or after r, Len(path) when there is none
RECURSIVE ElementEnd(_, _)
ElementEnd(path, r) ==
    IF r < Len(path) /\ ByteAt(path, r) # "/" THEN ElementEnd(path, r + 1) ELSE r

RECURSIVE CleanLoop(_, _, _, _, _)
CleanLoop(path, rooted, r, out, dotdot) ==
    LET n == Len(path) IN
    IF r >= n THEN (IF out = "" THEN "." ELSE out)
    ELSE IF ByteAt(path, r) = "/"
    THEN CleanLoop(path, rooted, r + 1, out, dotdot)
    ELSE IF ByteAt(path, r) = "." /\ (r + 1 = n \/ ByteAt(path, r + 1) = "/")
    THEN CleanLoop(path, rooted, r + 1, out, dotdot)
    ELSE IF /\ ByteAt(path, r) = "."
            /\ ByteAt(path, r + 1) = "."
            /\ (r + 2 = n \/ ByteAt(path, r + 2) = "/")
    THEN IF Len(out) > dotdot
         THEN CleanLoop(path, rooted, r + 2, Backtrack(out, Len(out) - 1, dotdot), dotdot)
         ELSE IF ~rooted
         THEN LET o == (IF Len(out) > 0 THEN out \o "/" ELSE out) \o ".."
              IN  CleanLoop(path, rooted, r + 2, o, Len(o))
         ELSE CleanLoop(path, rooted, r + 2, out, dotdot)
    ELSE LET sep == IF (rooted /\ Len(out) # 1) \/ (~rooted /\ Len(out) # 0)
                    THEN "/" ELSE ""
             e   == ElementEnd(path, r)
         IN  CleanLoop(path, rooted, e, out \o sep \o SubSeq(path, r + 1, e), dotdot)

Clean(path) ==
    IF path = "" THEN "."
    ELSE IF ByteAt(path, 0) = "/"
    THEN CleanLoop(path, TRUE, 1, "/", 1)
    ELSE CleanLoop(path, FALSE, 0, "", 0)

(***************************************************************************)
(* The filesystem.  A path names a regular file, a directory or nothing;   *)
(* the roots and every ancestor of an entry are directories.               *)
(***************************************************************************)
\* config.phpRoot, the primary application root
phpRoot == "/atom"

\* the data overlay root when ATOM_DATA_DIR is set
DataDir == "/data"

\* the relative names the filesystem states of the model put under the roots
PrimaryNames == {"css/x.png", "downloads/f.pdf", "foo", "private/foo"}

OverlayNames == {"css/x.png", "downloads/f.pdf", "foo"}

\* the relative names that may be directories (besides the ancestors of entries)
DirNames == {"downloads/f.pdf"}

\* filepath.Join of a root and a relative path: join, then Clean
Join(root, rel) ==
    IF rel = "" THEN Clean(root)
    ELSE IF root = "" THEN Clean(rel)
    ELSE Clean(root \o "/" \o rel)

FsPaths(roots) ==
    {Join(root, n) : root \in roots \cap {phpRoot}, n \in PrimaryNames}
    \cup {Join(root, n) : root \in roots \cap {DataDir}, n \in OverlayNames}

FsDirPaths(roots) == {Join(root, n) : root \in roots, n \in DirNames}

FsStates(roots) ==
    {f \in [files : SUBSET FsPaths(roots), dirs : SUBSET FsDirPaths(roots)] :
        /\ f.files \cap f.dirs = {}
        /\ Cardinality(f.files \cup f.dirs) <= MaxFiles}

\* config.frontController, which loadConfig requires to be a regular file
frontController == Join(phpRoot, "index.php")

\* os.Stat: "file" and "dir" for err == nil, "none" for an error
Stat(f, p) ==
    IF p \in f.files \cup {frontController} THEN "file"
    ELSE IF \/ p \in f.dirs
            \/ p \in {phpRoot, DataDir}
            \/ \E e \in f.files \cup f.dirs : HasPrefix(e, p \o "/")
    THEN "dir"
    ELSE "none"

(***************************************************************************)
(* The compiled patterns.  Each regular expression is anchored at the      *)
(* start; its alternatives are enumerated and `.*` is any substring.       *)
(***************************************************************************)
StaticDirs == {"css", "dist", "js", "images", "plugins", "vendor"}

StaticExts == {"css", "png", "jpg", "js", "svg", "ico", "gif", "pdf", "woff",
               "woff2", "otf", "ttf"}

DownloadExts == {"pdf", "xml", "html", "csv", "zip", "rtf"}

\* ^<pre>.*(<suf>|...)$ for the suffixes sufs
MatchAround(s, pre, sufs) ==
    /\ HasPrefix(s, pre)
    /\ \E suf \in sufs : HasSuffix(TrimPrefix(s, pre), suf)

\* ^/(css|dist|js|images|plugins|vendor)/.*\.(css|png|...|ttf)$
staticAssetRe(s) ==
    \E d \in StaticDirs :
        MatchAround(s, "/" \o d \o "/", {"." \o e : e \in StaticExts})

\* ^/(downloads)/.*\.(pdf|xml|html|csv|zip|rtf)$
downloadAssetRe(s) ==
    MatchAround(s, "/downloads/", {"." \o e : e \in DownloadExts})

\* ^/(ead\.dtd|favicon\.ico|robots\.txt|sitemap.*)$
publicFileRe(s) ==
    \/ s \in {"/ead.dtd", "/favicon.ico", "/robots.txt"}
    \/ HasPrefix(s, "/sitemap")

\* ^/uploads/r/.*/conf/
uploadsConfRe(s) ==
    /\ HasPrefix(s, "/uploads/r/")
    /\ Contains(TrimPrefix(s, "/uploads/r/"), "/conf/")

\* ^/uploads/r/.*$
uploadsAssetRe(s) == HasPrefix(s, "/uploads/r/")

\* ^/private/
privatePathRe(s) == HasPrefix(s, "/private/")

\* ^/(index|qubit_dev)\.php(/|$)
phpEntryRe(s) ==
    \E n \in {"index", "qubit_dev"} :
        s = "/" \o n \o ".php" \/ HasPrefix(s, "/" \o n \o ".php/")

matchesStatic(p) ==
    IF staticAssetRe(p) THEN TRUE
    ELSE IF downloadAssetRe(p) THEN TRUE
    ELSE publicFileRe(p)

(***************************************************************************)
(* The path normalizer.                                                    *)
(***************************************************************************)
cleanPath(requestPath) ==
    LET clean == Clean("/" \o requestPath)
    IN  IF Contains(clean, "..") THEN "/" ELSE clean

\* stripLegacyFrontController without the case of the bare script name
stripLegacyFrontController_prefixOnly(p) ==
    IF HasPrefix(p, "/index.php/") THEN "/" \o TrimPrefix(p, "/index.php/")
    ELSE IF HasPrefix(p, "/qubit_dev.php/") THEN "/" \o TrimPrefix(p, "/qubit_dev.php/")
    ELSE ""

\* stripLegacyFrontController that forgets to put the leading "/" back
stripLegacyFrontController_noSlash(p) ==
    IF HasPrefix(p, "/index.php/") THEN TrimPrefix(p, "/index.php/")
    ELSE IF HasPrefix(p, "/qubit_dev.php/") THEN TrimPrefix(p, "/qubit_dev.php/")
    ELSE IF p = "/index.php" \/ p = "/qubit_dev.php" THEN "/"
    ELSE ""

\* "" when the path has no front-controller prefix
stripLegacyFrontController(p) ==
    IF HasPrefix(p, "/index.php/") THEN "/" \o TrimPrefix(p, "/index.php/")
    ELSE IF HasPrefix(p, "/qubit_dev.php/") THEN "/" \o TrimPrefix(p, "/qubit_dev.php/")
    ELSE IF p = "/index.php" \/ p = "/qubit_dev.php" THEN "/"
    ELSE ""

\* "" when the path is no alias
rewriteStoragePath(p) ==
    IF p = "/storage/location/list" THEN "/storage/list" ELSE ""

\* a rewrite step of ServeHTTP: the rewritten path when there is one
OrKeep(rewritten, p) == IF rewritten # "" THEN rewritten ELSE p

StripStep(p) == OrKeep(stripLegacyFrontController(p), p)

AliasStep(p) == OrKeep(rewriteStoragePath(p), p)

\* the path ServeHTTP hands to decideRoute
Normalize(raw) == AliasStep(StripStep(cleanPath(raw)))

(***************************************************************************)
(* The static asset resolver and the direct-file check.                    *)
(***************************************************************************)
\* the candidates with the primary root ahead of the overlay root
Candidates_primaryFirst(dataDir, requestPath) ==
    LET rel == TrimPrefix(requestPath, "/")
    IN  <<Join(phpRoot, rel)>>
        \o (IF dataDir # "" /\ downloadAssetRe(requestPath)
            THEN <<Join(dataDir, rel)>> ELSE <<>>)

\* the candidates with the overlay root consulted for every static family
Candidates_alwaysOverlay(dataDir, requestPath) ==
    LET rel == TrimPrefix(requestPath, "/")
    IN  (IF dataDir # "" THEN <<Join(dataDir, rel)>> ELSE <<>>)
        \o <<Join(phpRoot, rel)>>

\* the candidates of staticAssetPath, in priority order
Candidates(dataDir, requestPath) ==
    LET rel == TrimPrefix(requestPath, "/")
    IN  (IF dataDir # "" /\ downloadAssetRe(requestPath)
         THEN <<Join(dataDir, rel)>> ELSE <<>>)
        \o <<Join(phpRoot, rel)>>

RECURSIVE FirstFile(_, _)
FirstFile(f, candidates) ==
    IF candidates = <<>> THEN [path |-> "", ok |-> FALSE]
    ELSE IF Stat(f, Head(candidates)) # "file" THEN FirstFile(f, Tail(candidates))
    ELSE [path |-> Head(candidates), ok |-> TRUE]

staticAssetPath(f, dataDir, requestPath) ==
    FirstFile(f, Candidates(dataDir, requestPath))

\* the direct-file check made against the overlay root
existsOnDisk_overlay(f, requestPath) ==
    Stat(f, Join(DataDir, TrimPrefix(requestPath, "/"))) = "file"

existsOnDisk(f, requestPath) ==
    Stat(f, Join(phpRoot, TrimPrefix(requestPath, "/"))) = "file"

(***************************************************************************)
(* The routing decision engine.                                            *)
(***************************************************************************)
Decision(l, h, a) == [label |-> l, handler |-> h, assetPath |-> a]

\* decideRoute with the uploads rule tested ahead of the upload-config rule
decideRoute_uploadsFirst(f, dataDir, p) ==
    IF privatePathRe(p) THEN Decision("deny_private", "NotFoundHandler", "")
    ELSE IF phpEntryRe(p) THEN Decision("php_entry", "fallback", "")
    ELSE IF matchesStatic(p)
    THEN LET asset == staticAssetPath(f, dataDir, p)
         IN  IF asset.ok THEN Decision("static", "ServeFile", asset.path)
             ELSE Decision("static_missing", "NotFoundHandler", "")
    ELSE IF uploadsAssetRe(p) THEN Decision("uploads_front_controller", "fallback", "")
    ELSE IF uploadsConfRe(p) THEN Decision("deny_uploads_conf", "forbiddenHandler", "")
    ELSE IF existsOnDisk(f, p) THEN Decision("deny_direct_file", "forbiddenHandler", "")
    ELSE Decision("front_controller", "fallback", "")

\* decideRoute without the private-prefix rule
decideRoute_noPrivate(f, dataDir, p) ==
    IF uploadsConfRe(p) THEN Decision("deny_uploads_conf", "forbiddenHandler", "")
    ELSE IF phpEntryRe(p) THEN Decision("php_entry", "fallback", "")
    ELSE IF matchesStatic(p)
    THEN LET asset == staticAssetPath(f, dataDir, p)
         IN  IF asset.ok THEN Decision("static", "ServeFile", asset.path)
             ELSE Decision("static_missing", "NotFoundHandler", "")
    ELSE IF uploadsAssetRe(p) THEN Decision("uploads_front_controller", "fallback", "")
    ELSE IF existsOnDisk(f, p) THEN Decision("deny_direct_file", "forbiddenHandler", "")
    ELSE Decision("front_controller", "fallback", "")

\* decideRoute where a static pattern whose file is missing falls through
decideRoute_staticFallsThrough(f, dataDir, p) ==
    LET asset == staticAssetPath(f, dataDir, p) IN
    IF privatePathRe(p) THEN Decision("deny_private", "NotFoundHandler", "")
    ELSE IF uploadsConfRe(p) THEN Decision("deny_uploads_conf", "forbiddenHandler", "")
    ELSE IF phpEntryRe(p) THEN Decision("php_entry", "fallback", "")
    ELSE IF matchesStatic(p) /\ asset.ok THEN Decision("static", "ServeFile", asset.path)
    ELSE IF uploadsAssetRe(p) THEN Decision("uploads_front_controller", "fallback", "")
    ELSE IF existsOnDisk(f, p) THEN Decision("deny_direct_file", "forbiddenHandler", "")
    ELSE Decision("front_controller", "fallback", "")

\* decideRoute whose default denies instead of forwarding
decideRoute_defaultForbidden(f, dataDir, p) ==
    IF privatePathRe(p) THEN Decision("deny_private", "NotFoundHandler", "")
    ELSE IF uploadsConfRe(p) THEN Decision("deny_uploads_conf", "forbiddenHandler", "")
    ELSE IF phpEntryRe(p) THEN Decision("php_entry", "fallback", "")
    ELSE IF matchesStatic(p)
    THEN LET asset == staticAssetPath(f, dataDir, p)
         IN  IF asset.ok THEN Decision("static", "ServeFile", asset.path)
             ELSE Decision("static_missing", "NotFoundHandler", "")
    ELSE IF uploadsAssetRe(p) THEN Decision("uploads_front_controller", "fallback", "")
    ELSE Decision("deny_direct_file", "forbiddenHandler", "")

decideRoute(f, dataDir, p) ==
    IF privatePathRe(p) THEN Decision("deny_private", "NotFoundHandler", "")
    ELSE IF uploadsConfRe(p) THEN Decision("deny_uploads_conf", "forbiddenHandler", "")
    ELSE IF phpEntryRe(p) THEN Decision("php_entry", "fallback", "")
    ELSE IF matchesStatic(p)
    THEN LET asset == staticAssetPath(f, dataDir, p)
         IN  IF asset.ok THEN Decision("static", "ServeFile", asset.path)
             ELSE Decision("static_missing", "NotFoundHandler", "")
    ELSE IF uploadsAssetRe(p) THEN Decision("uploads_front_controller", "fallback", "")
    ELSE IF existsOnDisk(f, p) THEN Decision("deny_direct_file", "forbiddenHandler", "")
    ELSE Decision("front_controller", "fallback", "")

(***************************************************************************)
(* Requests.  A raw request path is a concatenation of pieces.             *)
(***************************************************************************)
RECURSIVE Concats(_, _)
Concats(pieces, n) ==
    IF n = 0 THEN {""}
    ELSE LET shorter == Concats(pieces, n - 1)
         IN  shorter \cup {s \o p : s \in shorter, p \in pieces}

RoutePieces == {"/index.php", "/private", "/css/x.png", "/downloads/f.pdf",
                "/uploads/r/a", "/conf/x.png", "/foo", "/robots.txt"}

NormPieces == {"/", "/.", "/..", "/index.php", "/qubit_dev.php", "/private",
               "/storage/location/list", "/a..b.png", "/foo"}

RawPaths == Concats(RoutePieces, MaxPieces)

NormPaths == Concats(NormPieces, MaxNormPieces)

\* what the legacy runtime bridge does with a forwarded request
BridgeOutcomes == {"ok", "build_error", "rejected", "exec_error"}

fallbackStatus_rejectedAsGateway(outcome) ==
    IF outcome = "ok" THEN 200 ELSE 502

\* frontControllerHandler.ServeHTTP: the status the bridge's outcome leaves
fallbackStatus(outcome) ==
    IF outcome = "build_error" THEN 502
    ELSE IF outcome = "rejected" THEN 400
    ELSE IF outcome = "exec_error" THEN 502
    ELSE 200

\* the status decision.handler leaves in the statusRecorder
handlerStatus(h, outcome) ==
    IF h = "NotFoundHandler" THEN 404
    ELSE IF h = "forbiddenHandler" THEN 403
    ELSE IF h = "fallback" THEN fallbackStatus(outcome)
    ELSE 200

\* setStaticHeaders runs in the static handler only
handlerCacheControl(h) ==
    IF h = "ServeFile" THEN "public, max-age=31536000, immutable" ELSE ""

(***************************************************************************)
(* The disk the archive materializer (package atomembed) works on: a       *)
(* function from absolute paths to nodes.  A node is a directory, a        *)
(* regular file with its contents, or a symbolic link with its target.     *)
(* "/" is always a directory.                                              *)
(***************************************************************************)
DirNode == [kind |-> "dir", data |-> ""]

FileNode(data) == [kind |-> "file", data |-> data]

LinkNode(linkname) == [kind |-> "link", data |-> linkname]

\* what lstat reports for the physical path p
Kind(d, p) ==
    IF p = "/" THEN "dir" ELSE IF p \in DOMAIN d THEN d[p].kind ELSE "none"

\* the path ELOOP stands for: no physical path
LoopPath == ""

\* where the link at base/<name> with target linkname points
LinkDest(base, linkname) ==
    IF HasPrefix(linkname, "/") THEN Clean(linkname) ELSE Join(base, linkname)

\* the kernel's path walk: base is the physical directory reached so far,
\* rest the remaining relative path; links in directory position are always
\* followed, a link in final position when followFinal
RECURSIVE Walk(_, _, _, _, _)
Walk(d, base, rest, followFinal, hops) ==
    IF rest = "" THEN base
    ELSE \* one component
         LET e == ElementEnd(rest, 0)
             cand == Join(base, SubSeq(rest, 1, e))
             r == SubSeq(rest, e + 2, Len(rest))
         IN  IF Kind(d, cand) = "link" /\ (r # "" \/ followFinal)
             THEN IF hops = 0 THEN LoopPath
                  ELSE Walk(d, "/",
                            TrimPrefix(Join(LinkDest(base, d[cand].data), r), "/"),
                            followFinal, hops - 1)
             ELSE Walk(d, cand, r, followFinal, hops)

Physical(d, p, followFinal) ==
    Walk(d, "/", TrimPrefix(p, "/"), followFinal, MaxLinkHops)

\* index after the last "/" of p[0..i)
RECURSIVE LastSlash(_, _)
LastSlash(p, i) ==
    IF i > 0 /\ ByteAt(p, i - 1) # "/" THEN LastSlash(p, i - 1) ELSE i

\* filepath.Dir
Dir(p) == Clean(SubSeq(p, 1, LastSlash(p, Len(p))))

\* os.MkdirAll below base: every missing directory of rest is created, a
\* link to a directory is followed, anything else in the way is an error
RECURSIVE MkdirWalk(_, _, _, _)
MkdirWalk(d, base, rest, hops) ==
    IF rest = "" THEN [ok |-> TRUE, disk |-> d]
    ELSE LET e == ElementEnd(rest, 0)
             cand == Join(base, SubSeq(rest, 1, e))
             r == SubSeq(rest, e + 2, Len(rest))
             k == Kind(d, cand)
         IN  IF k = "none" THEN MkdirWalk((cand :> DirNode) @@ d, cand, r, hops)
             ELSE IF k = "dir" THEN MkdirWalk(d, cand, r, hops)
             ELSE IF k = "link" /\ hops > 0
                        /\ Kind(d, Physical(d, cand, TRUE)) = "dir"
             THEN MkdirWalk(d, "/",
                            TrimPrefix(Join(LinkDest(base, d[cand].data), r), "/"),
                            hops - 1)
             ELSE [ok |-> FALSE, disk |-> d]

MkdirAll(d, p) == MkdirWalk(d, "/", TrimPrefix(p, "/"), MaxLinkHops)

RemoveAll_keep(d, p) == d

\* os.RemoveAll(p): p and everything below it, links not followed
RemoveAll(d, p) ==
    [q \in {x \in DOMAIN d : x # p /\ ~HasPrefix(x, p \o "/")} |-> d[q]]

\* os.Symlink(linkname, p): an existing p is an error (fs.ErrExist)
Symlink(d, linkname, p) ==
    LET phys == Physical(d, p, FALSE)
    IN  IF phys = LoopPath THEN [err |-> "symlink", disk |-> d]
        ELSE IF Kind(d, phys) # "none" THEN [err |-> "exist", disk |-> d]
        ELSE IF Kind(d, Dir(phys)) # "dir" THEN [err |-> "symlink", disk |-> d]
        ELSE [err |-> "", disk |-> (phys :> LinkNode(linkname)) @@ d]

\* os.OpenFile(p, O_CREATE|O_TRUNC|O_WRONLY) then a write of data and Close:
\* a link at p is followed
WriteFile(d, p, data) ==
    LET phys == Physical(d, p, TRUE)
    IN  IF phys = LoopPath THEN [err |-> "open", disk |-> d]
        ELSE IF Kind(d, phys) \in {"dir", "link"} THEN [err |-> "open", disk |-> d]
        ELSE IF Kind(d, Dir(phys)) # "dir" THEN [err |-> "open", disk |-> d]
        ELSE [err |-> "", disk |-> (phys :> FileNode(data)) @@ d]

\* os.ReadFile(p): the contents, "" with ok FALSE when p is not a readable file
ReadFile(d, p) ==
    LET phys == Physical(d, p, TRUE)
    IN  IF phys # LoopPath /\ Kind(d, phys) = "file"
        THEN [ok |-> TRUE, data |-> d[phys].data]
        ELSE [ok |-> FALSE, data |-> ""]

\* strings.TrimSpace, for the space character
RECURSIVE TrimSpace(_)
TrimSpace(s) ==
    IF HasPrefix(s, " ") THEN TrimSpace(SubSeq(s, 2, Len(s)))
    ELSE IF HasSuffix(s, " ") THEN TrimSpace(SubSeq(s, 1, Len(s) - 1))
    ELSE s

(***************************************************************************)
(* The archive materializer.  The embedded snapshot is a sequence of tar   *)
(* entries; its digest stands for the hex SHA-256 of the archive bytes.    *)
(***************************************************************************)
Target == "/atom"

markerFile == ".valence-atom-version"

ErrAtomRootExists == "atom root exists and differs from embedded archive"

ErrInvalidPath == "archive contains invalid path"

ErrIO == "i/o error"

\* tar entries an archive of the model is made of: a directory, a regular
\* file, a regular file whose cleaned name climbs out of the target, one
\* with an absolute name, a link that points outside the target, a file
\* below that link, and a device node
EntryPool ==
    { [name |-> "lib",                  type |-> "dir",     data |-> ""],
      [name |-> "index.php",            type |-> "reg",     data |-> "php"],
      [name |-> "lib/../../etc/passwd", type |-> "reg",     data |-> "x"],
      [name |-> "/etc/passwd",          type |-> "reg",     data |-> "x"],
      [name |-> "out",                  type |-> "symlink", data |-> "/etc"],
      [name |-> "out/passwd",           type |-> "reg",     data |-> "x"],
      [name |-> "dev",                  type |-> "other",   data |-> ""] }

RECURSIVE EntrySeqs(_)
EntrySeqs(n) ==
    IF n = 0 THEN {<<>>}
    ELSE LET shorter == EntrySeqs(n - 1)
         IN  shorter \cup {Append(s, h) : s \in shorter, h \in EntryPool}

\* archiveData: empty when nothing is embedded
Archives ==
    {[available |-> FALSE, entries |-> <<>>]}
        \cup {[available |-> TRUE, entries |-> s] : s \in EntrySeqs(MaxEntries)}

ArchiveAvailable(a) == a.available

RECURSIVE EncodeEntries(_)
EncodeEntries(s) ==
    IF s = <<>> THEN ""
    ELSE Head(s).type \o ":" \o Head(s).name \o "=" \o Head(s).data \o ";"
             \o EncodeEntries(Tail(s))

\* a digest is a function of the archive bytes, distinct archives have
\* distinct digests
ArchiveHash(a) ==
    IF a.available THEN "sha256(" \o EncodeEntries(a.entries) \o ")" ELSE "sha256()"

markerMatches_never(d, a) == FALSE

markerMatches(d, a) ==
    \E contents \in {ReadFile(d, Join(Target, markerFile))} :
        contents.ok /\ TrimSpace(contents.data) = ArchiveHash(a)

dirEmpty_always(d) == TRUE

dirEmpty(d) == \A p \in DOMAIN d : ~HasPrefix(p, Target \o "/")

extractEntry_absOnly(d, hdr) ==
    IF hdr.name = "" THEN [err |-> "", disk |-> d]
    ELSE LET cleanName == Clean(hdr.name)
             dstPath == Join(Target, cleanName)
         IN  IF HasPrefix(cleanName, "/")
             THEN [err |-> ErrInvalidPath, disk |-> d]
             ELSE IF hdr.type = "reg"
             THEN LET m == MkdirAll(d, Dir(dstPath))
                  IN  IF m.ok THEN WriteFile(m.disk, dstPath, hdr.data)
                      ELSE [err |-> "mkdir", disk |-> d]
             ELSE [err |-> "", disk |-> d]

\* the body of extractArchive's loop for the header hdr
extractEntry(d, hdr) ==
    IF hdr.name = "" THEN [err |-> "", disk |-> d]
    ELSE LET cleanName == Clean(hdr.name)
             dstPath == Join(Target, cleanName)
         IN  IF HasPrefix(cleanName, "..") \/ HasPrefix(cleanName, "/")
             THEN [err |-> ErrInvalidPath, disk |-> d]
             ELSE IF hdr.type = "dir"
             THEN LET m == MkdirAll(d, dstPath)
                  IN  [err |-> IF m.ok THEN "" ELSE "mkdir", disk |-> m.disk]
             ELSE IF hdr.type = "symlink"
             THEN LET m == MkdirAll(d, Dir(dstPath))
                      l == Symlink(m.disk, hdr.data, dstPath)
                  IN  IF ~m.ok THEN [err |-> "mkdir", disk |-> d]
                      ELSE IF l.err = "exist" THEN [err |-> "", disk |-> m.disk]
                      ELSE l
             ELSE IF hdr.type = "reg"
             THEN LET m == MkdirAll(d, Dir(dstPath))
                  IN  IF m.ok THEN WriteFile(m.disk, dstPath, hdr.data)
                      ELSE [err |-> "mkdir", disk |-> d]
             ELSE [err |-> "", disk |-> d]

(***************************************************************************)
(* The dependency readiness gate: the addresses it probes.                 *)
(***************************************************************************)
\* waitForTCP's attempts argument at both calls of waitForDependencies
Attempts == 30

\* waitForTCP's delay argument at both calls, in seconds
DelaySeconds == 2

\* index of the first byte c of s at or after i, Len(s) when there is none
RECURSIVE IndexByte(_, _, _)
IndexByte(s, c, i) ==
    IF i < Len(s) /\ ByteAt(s, i) # c THEN IndexByte(s, c, i + 1) ELSE i

\* strings.Split(s, c) for a one-byte separator
RECURSIVE Split(_, _)
Split(s, c) ==
    LET i == IndexByte(s, c, 0)
    IN  IF i >= Len(s) THEN <<s>>
        ELSE <<SubSeq(s, 1, i)>> \o Split(SubSeq(s, i + 2, Len(s)), c)

\* net.JoinHostPort
JoinHostPort(host, port) ==
    IF Contains(host, ":") THEN "[" \o host \o "]:" \o port ELSE host \o ":" \o port

\* the loop of mysqlAddress for one key: the last part "key=value" wins, an
\* empty port value is skipped
RECURSIVE DsnField(_, _, _)
DsnField(parts, key, cur) ==
    IF parts = <<>> THEN cur
    ELSE LET part == TrimSpace(Head(parts))
             i == IndexByte(part, "=", 0)
             k == TrimSpace(SubSeq(part, 1, i))
             v == TrimSpace(SubSeq(part, i + 2, Len(part)))
         IN  DsnField(Tail(parts), key,
                      IF part # "" /\ i < Len(part) /\ k = key
                            /\ (key = "host" \/ v # "")
                      THEN v ELSE cur)

mysqlAddress(dsnValue) ==
    IF dsnValue = "" THEN [err |-> "ATOM_MYSQL_DSN is empty", addr |-> ""]
    ELSE LET parts == Split(TrimPrefix(dsnValue, "mysql:"), ";")
             host == DsnField(parts, "host", "")
             port == DsnField(parts, "port", "3306")
         IN  IF host = "" THEN [err |-> "mysql host not found in dsn", addr |-> ""]
             ELSE [err |-> "", addr |-> JoinHostPort(host, port)]

\* hostPort; defaultPort is strconv.Itoa of the port.  Of url.Parse the
\* scheme://host[:port][/path] form is computed
hostPort(value, defaultPort) ==
    IF value = "" THEN [err |-> "empty host", addr |-> ""]
    ELSE IF Contains(value, "://")
    THEN LET afterScheme == SubSeq(value, IndexByte(value, ":", 0) + 4, Len(value))
             authority == SubSeq(afterScheme, 1, IndexByte(afterScheme, "/", 0))
             parts == Split(authority, ":")
         IN  [err |-> "",
              addr |-> JoinHostPort(parts[1],
                                    IF Len(parts) > 1 /\ parts[2] # ""
                                    THEN parts[2] ELSE defaultPort)]
    ELSE LET parts == Split(value, ":")
         IN  IF Len(parts) = 1
             THEN [err |-> "", addr |-> JoinHostPort(parts[1], defaultPort)]
             ELSE [err |-> "", addr |-> JoinHostPort(parts[1], parts[2])]

\* values of ATOM_MYSQL_DSN and ATOM_ELASTICSEARCH_HOST
DSNs == {"mysql:host=db;port=3307;dbname=atom", "mysql:host=db", "mysql:dbname=atom", ""}

ESHosts == {"es", "es:9201", "http://es/", ""}

NoGateErr == [name |-> "", addr |-> "", attempts |-> 0, msg |-> ""]

\* the address waitForDependencies passes to waitForTCP for the target name
GateAddr(name) ==
    IF name = "mysql" THEN mysqlAddress(TrimSpace(dsn)).addr
    ELSE hostPort(TrimSpace(esHost), "9200").addr

\* no call before this one
NoPrev == [called |-> FALSE, fresh |-> FALSE, didExtract |-> FALSE, err |-> ""]

(***************************************************************************)
(* Disks the materializer can find at boot.  Outside the target there is   *)
(* the directory /etc.                                                     *)
(***************************************************************************)
OutsideDisk == "/etc" :> DirNode

\* the target: missing, a regular file, an empty directory, a directory
\* with content of another origin (without and with a front controller),
\* or the tree of an older snapshot with its marker
TargetStates ==
    { <<>>,
      Target :> FileNode("x"),
      Target :> DirNode,
      (Target :> DirNode) @@ (Join(Target, "old.txt") :> FileNode("old")),
      (Target :> DirNode) @@ (Join(Target, "index.php") :> FileNode("other")),
      (Target :> DirNode) @@ (Join(Target, "old.txt") :> FileNode("old"))
          @@ (Join(Target, markerFile) :> FileNode("sha256(old)")) }

InitDisks == {OutsideDisk @@ t : t \in TargetStates}

\* the snapshot and the disk of a server that booted on an up-to-date tree
ServedArchive ==
    [available |-> TRUE,
     entries |-> <<[name |-> "index.php", type |-> "reg", data |-> "php"]>>]

ServedDisk ==
    OutsideDisk @@ (Target :> DirNode)
        @@ (Join(Target, "index.php") :> FileNode("php"))
        @@ (Join(Target, markerFile) :> FileNode(ArchiveHash(ServedArchive)))

\* EnsureExtracted returned its no-op result on the up-to-date tree
Materialized ==
    /\ disk = ServedDisk /\ archive = ServedArchive
    /\ epc = "returned" /\ idx = 0 /\ force = FALSE
    /\ didExtract = FALSE /\ err = ""
    /\ diskAtCall = ServedDisk /\ ioFailed = FALSE
    /\ extractedAll = TRUE /\ prev = NoPrev

\* the gate found both dependencies
GatePassed ==
    /\ dsn = "mysql:host=db" /\ esHost = "es"
    /\ gname = "" /\ attempt = 0 /\ slept = 0
    /\ gateErr = NoGateErr
    /\ reached = {"mysql", "elasticsearch"}

\* run() reached serveWithShutdown and the listener is open
Serving ==
    /\ Materialized
    /\ GatePassed
    /\ bpc = "serving" /\ bootErr = ""
    /\ ran = [materializer |-> 1, gate |-> 1]

(***************************************************************************)
(* What a handler does with the response writer it is given, and the       *)
(* statusRecorder atomHandler.ServeHTTP wraps around the writer.           *)
(***************************************************************************)
\* the request methods the model sends
Methods == {"GET", "HEAD", "POST"}

\* the process environment, as far as request handling reads it: the
\* route-log variable unset, blank or set (the token varies in ApiEnvironments)
Environments ==
    [VALENCE_LOG_ROUTES : {"", " ", "1"}, ATOM_VALENCE_INTERNAL_TOKEN : {""}]

NoPhpReq ==
    [path |-> "", rawPath |-> "", scriptFilename |-> "", scriptName |-> "",
     pathInfo |-> "", documentRoot |-> ""]

frontControllerRequest_visiblePath(originalPath) ==
    [path |-> originalPath, rawPath |-> originalPath,
     scriptFilename |-> frontController, scriptName |-> "/index.php",
     pathInfo |-> originalPath, documentRoot |-> phpRoot]

\* frontControllerHandler.frontControllerRequest, and the document root
\* frontControllerHandler.ServeHTTP adds to the request it builds
frontControllerRequest(originalPath) ==
    [path |-> "/index.php", rawPath |-> "/index.php",
     scriptFilename |-> frontController, scriptName |-> "/index.php",
     pathInfo |-> originalPath, documentRoot |-> phpRoot]

\* the body http.Error, http.NotFound and the bridge write; a served file's
\* content is not part of the filesystem states and is stood for by its path
handlerBody(h, outcome, asset) ==
    IF h = "NotFoundHandler" THEN "404 page not found\n"
    ELSE IF h = "forbiddenHandler" THEN "forbidden\n"
    ELSE IF h = "ServeFile" THEN asset
    ELSE IF outcome = "build_error" THEN "php request build error\n"
    ELSE IF outcome = "rejected" THEN "request rejected by PHP\n"
    ELSE IF outcome = "exec_error" THEN "php execution error\n"
    ELSE "<html>"

\* the calls decision.handler makes on its writer: http.Error writes the
\* header and the body, http.ServeFile writes no body for HEAD, and a script
\* of the legacy runtime that sets no status only writes its output
handlerOps(h, outcome, asset, m) ==
    IF h = "fallback" /\ outcome = "ok"
    THEN <<[op |-> "Write", code |-> 0, body |-> handlerBody(h, outcome, asset)]>>
    ELSE IF h = "ServeFile" /\ m = "HEAD"
    THEN <<[op |-> "WriteHeader", code |-> handlerStatus(h, outcome), body |-> ""]>>
    ELSE <<[op |-> "WriteHeader", code |-> handlerStatus(h, outcome), body |-> ""],
           [op |-> "Write", code |-> 0, body |-> handlerBody(h, outcome, asset)]>>

\* &statusRecorder{ResponseWriter: w, status: http.StatusOK}
newStatusRecorder == [status |-> 200, bytes |-> 0]

\* statusRecorder.WriteHeader and statusRecorder.Write, call by call
RECURSIVE Record(_, _)
Record(rec, ops) ==
    IF ops = <<>> THEN rec
    ELSE LET o == Head(ops)
         IN  IF o.op = "WriteHeader"
             THEN Record([rec EXCEPT !.status = o.code], Tail(ops))
             ELSE Record([status |-> IF rec.status = 0 THEN 200 ELSE rec.status,
                          bytes  |-> rec.bytes + Len(o.body)], Tail(ops))

logRouteDecision_always(e, decision, m, p, st, n) ==
    <<[route |-> decision, method |-> m, path |-> p, status |-> st, bytes |-> n]>>

\* logRouteDecision: the records it prints under the environment e
logRouteDecision(e, decision, m, p, st, n) ==
    IF TrimSpace(e.VALENCE_LOG_ROUTES) = "" THEN <<>>
    ELSE <<[route |-> decision, method |-> m, path |-> p, status |-> st, bytes |-> n]>>

NoRequest ==
    /\ rawPath = "" /\ reqPath = "" /\ label = "" /\ handler = ""
    /\ assetPath = "" /\ status = 0 /\ cacheControl = "" /\ bridge = ""
    /\ method = "" /\ phpReq = NoPhpReq /\ bytes = 0 /\ routeLog = <<>>

(***************************************************************************)
(* The server of serveWithShutdown: its connections, each with the         *)
(* goroutine that runs its handler, and the channel errCh.                 *)
(***************************************************************************)
ConnIds == 1 .. MaxConns

\* no connection: closed, no handler goroutine
NoConn == [open |-> FALSE, h |-> "none"]

\* the channel errCh holds nothing
NoErr == ""

\* http.ErrServerClosed
ErrServerClosed == "http: Server closed"

\* any other error of srv.ListenAndServe
ErrAccept == "accept error"

\* context.WithTimeout(context.Background(), 20*time.Second), in seconds
GraceSeconds == 20

\* the error serveWithShutdown returns for the value it took from errCh
listenError(e) ==
    IF e # NoErr /\ e # ErrServerClosed THEN "http listen" ELSE ""

(***************************************************************************)
(* The storage-locations endpoint.                                         *)
(***************************************************************************)
NoApiReq == [method |-> "", authorization |-> "", parentID |-> "", query |-> ""]

NoApiResp == [status |-> 0, allow |-> "", body |-> "", locations |-> <<>>]

\* seedStorageLocations; hasParent is FALSE for a nil ParentID
seedStorageLocations ==
    << [id |-> "loc_building_a", label |-> "Building A", type |-> "building",
        hasParent |-> FALSE, parentID |-> ""],
       [id |-> "loc_room_101", label |-> "Room 101", type |-> "room",
        hasParent |-> TRUE, parentID |-> "loc_building_a"],
       [id |-> "loc_range_a", label |-> "Range A", type |-> "range",
        hasParent |-> TRUE, parentID |-> "loc_room_101"],
       [id |-> "loc_shelf_3", label |-> "Shelf 3", type |-> "shelf",
        hasParent |-> TRUE, parentID |-> "loc_range_a"],
       [id |-> "loc_shelf_4", label |-> "Shelf 4", type |-> "shelf",
        hasParent |-> TRUE, parentID |-> "loc_range_a"] >>

\* the lower-case form of the one-character string c
RECURSIVE LowerChar(_, _)
LowerChar(c, i) ==
    IF i > 26 THEN c
    ELSE IF SubSeq("ABCDEFGHIJKLMNOPQRSTUVWXYZ", i, i) = c
    THEN SubSeq("abcdefghijklmnopqrstuvwxyz", i, i)
    ELSE LowerChar(c, i + 1)

\* strings.ToLower, for the letters A to Z
RECURSIVE ToLower(_)
ToLower(s) ==
    IF s = "" THEN ""
    ELSE LowerChar(SubSeq(s, 1, 1), 1) \o ToLower(SubSeq(s, 2, Len(s)))

\* filterStorageLocations
filterStorageLocations(locations, parentID, query) ==
    IF parentID = "" /\ query = "" THEN locations
    ELSE SelectSeq(locations,
                   LAMBDA location :
                       /\ parentID # ""
                             => (location.hasParent /\ location.parentID = parentID)
                       /\ query # "" => Contains(ToLower(location.label), query))

authorizeInternalAPI_open(e, r) == TRUE

\* authorizeInternalAPI: TRUE when the request may pass
authorizeInternalAPI(e, r) ==
    \E token \in {TrimSpace(e.ATOM_VALENCE_INTERNAL_TOKEN)} :
        \/ token = ""
        \/ TrimSpace(r.authorization) = "Bearer " \o token

\* the environment with neither variable of Environments set
UnsetEnv == [VALENCE_LOG_ROUTES |-> "", ATOM_VALENCE_INTERNAL_TOKEN |-> ""]

\* serveWithShutdown waits in its select, the listener open, nobody connected
Listening ==
    /\ spc = "select" /\ sig = FALSE /\ listener = "open" /\ errCh = NoErr
    /\ conns = [c \in ConnIds |-> NoConn]
    /\ elapsed = 0 /\ shutLog = <<>> /\ tornDown = FALSE

\* serveWithShutdown was not called yet
NotListening ==
    /\ spc = "idle" /\ sig = FALSE /\ listener = "closed" /\ errCh = NoErr
    /\ conns = [c \in ConnIds |-> NoConn]
    /\ elapsed = 0 /\ shutLog = <<>> /\ tornDown = FALSE

\* the server after construction: any filesystem, with or without an overlay root
Init ==
    /\ atomDataDir \in {"", DataDir}
    /\ fs \in FsStates(IF atomDataDir = "" THEN {phpRoot} ELSE {phpRoot, DataDir})
    /\ pc = "idle"
    /\ NoRequest
    /\ Serving
    /\ env = UnsetEnv /\ bootEnv = env /\ Listening
    /\ apiReq = NoApiReq /\ apiResp = NoApiResp

\* the requests the model sends to atomHandler: every raw path with GET,
\* the one-piece paths with every method
Requests ==
    {<<raw, "GET">> : raw \in RawPaths}
    \cup {<<raw, m>> : raw \in RoutePieces, m \in Methods}

\* the mux hands a request to atomHandler
Receive ==
    /\ bpc = "serving"
    /\ pc = "idle"
    /\ \E r \in Requests : rawPath' = r[1] /\ method' = r[2]
    /\ pc' = "pending"
    /\ UNCHANGED <<fs, atomDataDir, reqPath, label, handler, assetPath, status,
                   cacheControl, bridge, phpReq, bytes, routeLog>>
    /\ UNCHANGED <<archVars, gateVars, bootVars, envVars, srvVars, apiVars>>

\* atomHandler.ServeHTTP: normalize, decide, run the decision's handler
ServeHTTP ==
    /\ pc = "pending"
    /\ \E p \in {Normalize(rawPath)} :
       \E decision \in {decideRoute(fs, atomDataDir, p)} :
           /\ reqPath' = p
           /\ label' = decision.label
           /\ handler' = decision.handler
           /\ assetPath' = decision.assetPath
           /\ cacheControl' = handlerCacheControl(decision.handler)
           /\ \E outcome \in IF decision.handler = "fallback"
                               THEN BridgeOutcomes ELSE {""} :
                 /\ bridge' = outcome
                 /\ phpReq' = IF decision.handler = "fallback"
                              THEN frontControllerRequest(p) ELSE NoPhpReq
                 /\ \E recorder \in {Record(newStatusRecorder,
                                             handlerOps(decision.handler, outcome,
                                                        decision.assetPath, method))} :
                       /\ status' = recorder.status
                       /\ bytes' = recorder.bytes
                       /\ routeLog' = logRouteDecision(env, decision.label, method, p,
                                                       recorder.status, recorder.bytes)
    /\ pc' = "done"
    /\ UNCHANGED <<fs, atomDataDir, rawPath, method>>
    /\ UNCHANGED <<archVars, gateVars, bootVars, envVars, srvVars, apiVars>>

Finish_removesAsset ==
    /\ pc = "done"
    /\ pc' = "idle"
    /\ rawPath' = "" /\ reqPath' = "" /\ label' = "" /\ handler' = ""
    /\ assetPath' = "" /\ status' = 0 /\ cacheControl' = "" /\ bridge' = ""
    /\ method' = "" /\ phpReq' = NoPhpReq /\ bytes' = 0 /\ routeLog' = <<>>
    /\ fs' = [fs EXCEPT !.files = @ \ {assetPath}]
    /\ UNCHANGED atomDataDir
    /\ UNCHANGED <<archVars, gateVars, bootVars, envVars, srvVars, apiVars>>

\* the response is complete; the server waits for the next request
Finish ==
    /\ pc = "done"
    /\ pc' = "idle"
    /\ rawPath' = "" /\ reqPath' = "" /\ label' = "" /\ handler' = ""
    /\ assetPath' = "" /\ status' = 0 /\ cacheControl' = "" /\ bridge' = ""
    /\ method' = "" /\ phpReq' = NoPhpReq /\ bytes' = 0 /\ routeLog' = <<>>
    /\ UNCHANGED <<fs, atomDataDir>>
    /\ UNCHANGED <<archVars, gateVars, bootVars, envVars, srvVars, apiVars>>

Next == Receive \/ ServeHTTP \/ Finish

Spec == Init /\ [][Next]_vars

\* the normalizer's inputs: a request in flight with any raw path of NormPaths
InitNormalizer ==
    /\ atomDataDir = ""
    /\ fs = [files |-> {}, dirs |-> {}]
    /\ pc = "pending"
    /\ rawPath \in NormPaths
    /\ reqPath = "" /\ label = "" /\ handler = "" /\ assetPath = ""
    /\ status = 0 /\ cacheControl = "" /\ bridge = ""
    /\ method = "GET" /\ phpReq = NoPhpReq /\ bytes = 0 /\ routeLog = <<>>
    /\ Serving
    /\ env = UnsetEnv /\ bootEnv = env /\ Listening
    /\ apiReq = NoApiReq /\ apiResp = NoApiResp

SpecNormalizer == InitNormalizer /\ [][Next]_vars

(***************************************************************************)
(* EnsureExtracted(Target, force), as a process: the checks before the     *)
(* extraction are one step, then extractArchive runs entry by entry, then  *)
(* the marker is written.  epc is "idle" before the first call, "extract"  *)
(* at the call of extractArchive, "entries" inside its loop, "marker"      *)
(* before os.WriteFile, "returned" when the call is over.                  *)
(***************************************************************************)
\* the target is missing or an empty directory
FreshTarget(d) ==
    \/ Kind(d, Target) = "none"
    \/ Kind(d, Target) = "dir" /\ dirEmpty(d)

Return(extracted, e) ==
    /\ epc' = "returned"
    /\ idx' = 0
    /\ didExtract' = extracted
    /\ err' = e

EnsureExtracted_forceFirst(f) ==
    /\ epc \in {"idle", "returned"}
    /\ force' = f
    /\ diskAtCall' = disk
    /\ prev' = IF epc = "returned"
               THEN [called |-> TRUE, fresh |-> FreshTarget(diskAtCall) /\ ~ioFailed,
                     didExtract |-> didExtract, err |-> err]
               ELSE NoPrev
    /\ \E k \in {Kind(disk, Physical(disk, Target, TRUE))} :
          IF k \notin {"dir", "none"}
          THEN /\ Return(FALSE, "atom root exists and is not a directory")
               /\ ioFailed' = FALSE
               /\ UNCHANGED <<disk, extractedAll>>
          ELSE IF k = "dir" /\ f
          THEN \E removed \in BOOLEAN :
                  /\ ioFailed' = ~removed
                  /\ IF removed
                     THEN /\ disk' = RemoveAll(disk, Target)
                          /\ extractedAll' = FALSE
                          /\ epc' = "extract" /\ idx' = 0
                          /\ didExtract' = FALSE /\ err' = ""
                     ELSE /\ Return(FALSE, ErrIO)
                          /\ UNCHANGED <<disk, extractedAll>>
          ELSE IF k = "dir" /\ markerMatches(disk, archive)
          THEN /\ Return(FALSE, "")
               /\ ioFailed' = FALSE
               /\ UNCHANGED <<disk, extractedAll>>
          ELSE IF k = "dir" /\ ~dirEmpty(disk)
          THEN /\ Return(FALSE, ErrAtomRootExists)
               /\ ioFailed' = FALSE
               /\ UNCHANGED <<disk, extractedAll>>
          ELSE /\ epc' = "extract" /\ idx' = 0
               /\ didExtract' = FALSE /\ err' = ""
               /\ ioFailed' = FALSE
               /\ extractedAll' = FALSE
               /\ disk' = disk
    /\ UNCHANGED archive

\* EnsureExtracted up to the call of extractArchive; Target is not empty
EnsureExtracted(f) ==
    /\ epc \in {"idle", "returned"}
    /\ force' = f
    /\ diskAtCall' = disk
    /\ prev' = IF epc = "returned"
               THEN [called |-> TRUE, fresh |-> FreshTarget(diskAtCall) /\ ~ioFailed,
                     didExtract |-> didExtract, err |-> err]
               ELSE NoPrev
    /\ \E k \in {Kind(disk, Physical(disk, Target, TRUE))} :
          IF k \notin {"dir", "none"}
          THEN /\ Return(FALSE, "atom root exists and is not a directory")
               /\ ioFailed' = FALSE
               /\ UNCHANGED <<disk, extractedAll>>
          ELSE IF k = "dir" /\ markerMatches(disk, archive)
          THEN /\ Return(FALSE, "")
               /\ ioFailed' = FALSE
               /\ UNCHANGED <<disk, extractedAll>>
          ELSE IF k = "dir" /\ f
          THEN \E removed \in BOOLEAN :
                  /\ ioFailed' = ~removed
                  /\ IF removed
                     THEN /\ disk' = RemoveAll(disk, Target)
                          /\ extractedAll' = FALSE
                          /\ epc' = "extract" /\ idx' = 0
                          /\ didExtract' = FALSE /\ err' = ""
                     ELSE /\ Return(FALSE, ErrIO)
                          /\ UNCHANGED <<disk, extractedAll>>
          ELSE IF k = "dir" /\ ~dirEmpty(disk)
          THEN /\ Return(FALSE, ErrAtomRootExists)
               /\ ioFailed' = FALSE
               /\ UNCHANGED <<disk, extractedAll>>
          ELSE /\ epc' = "extract" /\ idx' = 0
               /\ didExtract' = FALSE /\ err' = ""
               /\ ioFailed' = FALSE
               /\ extractedAll' = FALSE
               /\ disk' = disk
    /\ UNCHANGED archive

\* a caller of the package calls EnsureExtracted, with either force
CallEnsureExtracted ==
    /\ bpc = "down"
    /\ \E f \in BOOLEAN : EnsureExtracted(f)
    /\ UNCHANGED <<reqVars, envVars, srvVars, apiVars, gateVars, bootVars>>

ExtractStart_markerFirst ==
    /\ epc = "extract"
    /\ ArchiveAvailable(archive)
    /\ \E m \in {MkdirAll(disk, Target)} :
          /\ m.ok
          /\ disk' = WriteFile(m.disk, Join(Target, markerFile),
                               ArchiveHash(archive)).disk
    /\ UNCHANGED <<didExtract, err>>
    /\ IF archive.entries = <<>>
       THEN epc' = "marker" /\ idx' = 0 /\ extractedAll' = TRUE
       ELSE epc' = "entries" /\ idx' = 1 /\ UNCHANGED extractedAll
    /\ UNCHANGED <<archive, force, diskAtCall, ioFailed, prev>>
    /\ UNCHANGED <<reqVars, envVars, srvVars, apiVars, gateVars, bootVars>>

\* extractArchive before its loop: the archive must be there, the target is
\* created
ExtractStart ==
    /\ epc = "extract"
    /\ IF ~ArchiveAvailable(archive)
       THEN /\ Return(FALSE, "embedded atom archive not available")
            /\ UNCHANGED <<disk, extractedAll>>
       ELSE \E m \in {MkdirAll(disk, Target)} :
               IF ~m.ok
               THEN /\ Return(FALSE, "mkdir")
                    /\ UNCHANGED <<disk, extractedAll>>
               ELSE /\ disk' = m.disk
                    /\ UNCHANGED <<didExtract, err>>
                    /\ IF archive.entries = <<>>
                       THEN epc' = "marker" /\ idx' = 0 /\ extractedAll' = TRUE
                       ELSE epc' = "entries" /\ idx' = 1 /\ UNCHANGED extractedAll
    /\ UNCHANGED <<archive, force, diskAtCall, ioFailed, prev>>
    /\ UNCHANGED <<reqVars, envVars, srvVars, apiVars, gateVars, bootVars>>

\* one round of extractArchive's loop: the entry at idx is extracted
ExtractEntry ==
    /\ epc = "entries"
    /\ \E r \in {extractEntry(disk, archive.entries[idx])} :
          /\ disk' = r.disk
          /\ IF r.err # ""
             THEN Return(FALSE, r.err) /\ UNCHANGED extractedAll
             ELSE /\ UNCHANGED <<didExtract, err>>
                  /\ IF idx = Len(archive.entries)
                     THEN epc' = "marker" /\ idx' = 0 /\ extractedAll' = TRUE
                     ELSE epc' = "entries" /\ idx' = idx + 1 /\ UNCHANGED extractedAll
    /\ UNCHANGED <<archive, force, diskAtCall, ioFailed, prev>>
    /\ UNCHANGED <<reqVars, envVars, srvVars, apiVars, gateVars, bootVars>>

\* a read of the archive or a write to the disk fails inside extractArchive;
\* the copy of a regular file may have stopped half way
ExtractFail ==
    /\ epc \in {"extract", "entries"}
    /\ ioFailed' = TRUE
    /\ Return(FALSE, ErrIO)
    /\ \/ disk' = disk
       \/ /\ epc = "entries"
          /\ archive.entries[idx].type = "reg"
          /\ \E r \in {extractEntry(disk, [archive.entries[idx] EXCEPT !.data = ""])} :
                r.err = "" /\ disk' = r.disk
    /\ UNCHANGED <<archive, force, diskAtCall, prev, extractedAll>>
    /\ UNCHANGED <<reqVars, envVars, srvVars, apiVars, gateVars, bootVars>>

\* os.WriteFile of the marker, after extractArchive returned nil
WriteMarker ==
    /\ epc = "marker"
    /\ \E w \in {WriteFile(disk, Join(Target, markerFile), ArchiveHash(archive))} :
          /\ disk' = w.disk
          /\ Return(TRUE, w.err)
    /\ UNCHANGED <<archive, force, diskAtCall, ioFailed, prev, extractedAll>>
    /\ UNCHANGED <<reqVars, envVars, srvVars, apiVars, gateVars, bootVars>>

\* the write of the marker fails: nothing, or an empty marker, is left
WriteMarkerFail ==
    /\ epc = "marker"
    /\ ioFailed' = TRUE
    /\ Return(TRUE, ErrIO)
    /\ \/ disk' = disk
       \/ \E w \in {WriteFile(disk, Join(Target, markerFile), "")} :
             w.err = "" /\ disk' = w.disk
    /\ UNCHANGED <<archive, force, diskAtCall, prev, extractedAll>>
    /\ UNCHANGED <<reqVars, envVars, srvVars, apiVars, gateVars, bootVars>>

\* the process dies inside EnsureExtracted; the disk stays as it is
Crash ==
    /\ epc \in {"extract", "entries", "marker"}
    /\ epc' = "idle" /\ idx' = 0
    /\ didExtract' = FALSE /\ err' = ""
    /\ force' = FALSE /\ ioFailed' = FALSE
    /\ diskAtCall' = disk
    /\ prev' = NoPrev
    /\ UNCHANGED <<disk, archive, extractedAll>>
    /\ UNCHANGED <<reqVars, envVars, srvVars, apiVars, gateVars, bootVars>>

(***************************************************************************)
(* The boot sequence of run().  bpc is the step run() is at: "start",      *)
(* "ensureAtomRoot" while EnsureExtracted runs, "bootstrap", "gate",       *)
(* "probing" inside waitForTCP, "symfony", "phpinit", "listen", "serving"  *)
(* once the listener is open, "exited" when run() returned an error;       *)
(* "down" when no process of the server runs.                              *)
(***************************************************************************)
Exit(e) == bpc' = "exited" /\ bootErr' = e

\* resolveAtomRoot up to ensureAtomRoot's call of EnsureExtracted, with
\* VALENCE_ATOM_SRC_DIR set or not and either VALENCE_ATOM_FORCE_EXTRACT
resolveAtomRoot ==
    /\ bpc = "start"
    /\ \E rootSet \in BOOLEAN :
          IF rootSet
          THEN /\ \E forceExtract \in BOOLEAN : EnsureExtracted(forceExtract)
               /\ bpc' = "ensureAtomRoot"
               /\ ran' = [ran EXCEPT !.materializer = @ + 1]
               /\ UNCHANGED bootErr
          ELSE /\ Exit("config error: VALENCE_ATOM_SRC_DIR is required")
               /\ UNCHANGED <<archVars, ran>>
    /\ UNCHANGED <<reqVars, envVars, srvVars, apiVars, gateVars>>

loadConfig_conflictFatal ==
    /\ bpc = "ensureAtomRoot"
    /\ epc = "returned"
    /\ IF err # ""
       THEN Exit("config error: " \o err)
       ELSE IF Kind(disk, Physical(disk, Target, TRUE)) # "dir"
       THEN Exit("config error: atom root not found")
       ELSE IF ~ReadFile(disk, Join(Target, "index.php")).ok
       THEN Exit("config error: front controller not found")
       ELSE bpc' = "bootstrap" /\ UNCHANGED bootErr
    /\ UNCHANGED <<reqVars, envVars, srvVars, apiVars, archVars, gateVars, ran>>

\* ensureAtomRoot after EnsureExtracted returned, then the rest of
\* resolveAtomRoot and of loadConfig
loadConfig ==
    /\ bpc = "ensureAtomRoot"
    /\ epc = "returned"
    /\ IF err # "" /\ err # ErrAtomRootExists
       THEN Exit("config error: " \o err)
       ELSE IF Kind(disk, Physical(disk, Target, TRUE)) # "dir"
       THEN Exit("config error: atom root not found")
       ELSE IF ~ReadFile(disk, Join(Target, "index.php")).ok
       THEN Exit("config error: front controller not found")
       ELSE bpc' = "bootstrap" /\ UNCHANGED bootErr
    /\ UNCHANGED <<reqVars, envVars, srvVars, apiVars, archVars, gateVars, ran>>

\* bootstrap.LoadConfigFromEnv and bootstrap.Apply; the configuration files
\* Apply writes are not files of the model's disk
bootstrapApply ==
    /\ bpc = "bootstrap"
    /\ IF TrimSpace(dsn) = "" \/ TrimSpace(esHost) = ""
       THEN Exit("bootstrap config error")
       ELSE \E applied \in BOOLEAN :
               IF applied THEN bpc' = "gate" /\ UNCHANGED bootErr
               ELSE Exit("bootstrap error")
    /\ UNCHANGED <<reqVars, envVars, srvVars, apiVars, archVars, gateVars, ran>>

\* waitForDependencies up to its first call of waitForTCP
waitForDependencies ==
    /\ bpc = "gate"
    /\ ran' = [ran EXCEPT !.gate = @ + 1]
    /\ \E m \in {mysqlAddress(TrimSpace(dsn))} :
       \E e \in {hostPort(TrimSpace(esHost), "9200")} :
          IF m.err # ""
          THEN /\ gateErr' = [NoGateErr EXCEPT !.msg = "parse mysql dsn"]
               /\ Exit("dependency check failed")
               /\ UNCHANGED <<gname, attempt>>
          ELSE IF e.err # ""
          THEN /\ gateErr' = [NoGateErr EXCEPT !.msg = "parse elasticsearch host"]
               /\ Exit("dependency check failed")
               /\ UNCHANGED <<gname, attempt>>
          ELSE /\ bpc' = "probing"
               /\ gname' = "mysql"
               /\ attempt' = 0
               /\ UNCHANGED <<gateErr, bootErr>>
    /\ UNCHANGED <<reqVars, envVars, srvVars, apiVars, archVars, dsn, esHost, slept, reached>>

DialOk_keepProbing ==
    /\ bpc = "probing"
    /\ attempt < Attempts
    /\ reached' = reached \cup {gname}
    /\ attempt' = attempt + 1
    /\ UNCHANGED <<gname, slept, bpc>>
    /\ UNCHANGED <<reqVars, envVars, srvVars, apiVars, archVars, dsn, esHost, gateErr, bootErr, ran>>

\* a round of waitForTCP's loop in which net.DialTimeout connects: the
\* function returns nil, waitForDependencies goes on to its next target
DialOk ==
    /\ bpc = "probing"
    /\ attempt < Attempts
    /\ reached' = reached \cup {gname}
    /\ attempt' = 0
    /\ slept' = 0
    /\ IF gname = "mysql"
       THEN gname' = "elasticsearch" /\ UNCHANGED bpc
       ELSE gname' = "" /\ bpc' = "symfony"
    /\ UNCHANGED <<reqVars, envVars, srvVars, apiVars, archVars, dsn, esHost, gateErr, bootErr, ran>>

DialFail_continueBoot ==
    /\ bpc = "probing"
    /\ attempt < Attempts
    /\ attempt' = attempt + 1
    /\ slept' = DelaySeconds
    /\ IF attempt + 1 = Attempts
       THEN /\ gateErr' = [name |-> gname, addr |-> GateAddr(gname),
                           attempts |-> Attempts, msg |-> "not reachable"]
            /\ bpc' = "symfony"
            /\ UNCHANGED bootErr
       ELSE UNCHANGED <<gateErr, bpc, bootErr>>
    /\ UNCHANGED <<reqVars, envVars, srvVars, apiVars, archVars, dsn, esHost, gname, reached, ran>>

\* a round of waitForTCP's loop in which net.DialTimeout fails: the loop
\* sleeps; after the last round waitForTCP returns its error and run() ends
DialFail ==
    /\ bpc = "probing"
    /\ attempt < Attempts
    /\ attempt' = attempt + 1
    /\ slept' = DelaySeconds
    /\ IF attempt + 1 = Attempts
       THEN /\ gateErr' = [name |-> gname, addr |-> GateAddr(gname),
                           attempts |-> Attempts, msg |-> "not reachable"]
            /\ Exit("dependency check failed")
       ELSE UNCHANGED <<gateErr, bpc, bootErr>>
    /\ UNCHANGED <<reqVars, envVars, srvVars, apiVars, archVars, dsn, esHost, gname, reached, ran>>

\* runSymfonyPurge and runSymfonyCacheClear
symfonyTools ==
    /\ bpc = "symfony"
    /\ \E done \in BOOLEAN :
          IF done THEN bpc' = "phpinit" /\ UNCHANGED bootErr
          ELSE Exit("symfony purge failed")
    /\ UNCHANGED <<reqVars, envVars, srvVars, apiVars, archVars, gateVars, ran>>

initPHPRuntime ==
    /\ bpc = "phpinit"
    /\ \E started \in BOOLEAN :
          IF started THEN bpc' = "listen" /\ UNCHANGED bootErr
          ELSE Exit("frankenphp init")
    /\ UNCHANGED <<reqVars, envVars, srvVars, apiVars, archVars, gateVars, ran>>

\* serveWithShutdown starts srv.ListenAndServe: the listener opens, or not
ListenAndServe ==
    /\ bpc = "listen"
    /\ \E opened \in BOOLEAN :
          IF opened
          THEN /\ bpc' = "serving" /\ spc' = "select" /\ listener' = "open"
               /\ UNCHANGED <<bootErr, tornDown>>
          ELSE /\ Exit("http listen") /\ spc' = "done" /\ tornDown' = TRUE
               /\ UNCHANGED listener
    /\ UNCHANGED <<sig, errCh, conns, elapsed, shutLog>>
    /\ UNCHANGED <<reqVars, envVars, apiVars, archVars, gateVars, ran>>

(***************************************************************************)
(* serveWithShutdown and the server it runs.  spc is the step the function *)
(* is at: "idle" before it is called, "select" while it waits for errCh or *)
(* the signal, "shutdown" inside srv.Shutdown, "recv" at the receive from  *)
(* errCh after it, "returned" once it returned, "done" once the deferred   *)
(* shutdownPHPRuntime of run() ran.  A handler goroutine is "go" while it  *)
(* runs outside frankenphp.ServeHTTP and "php" while it is inside.         *)
(***************************************************************************)
\* srv.Shutdown was called: the server no longer keeps connections alive
inShutdown == spc \in {"shutdown", "recv", "returned", "done"}

\* a client connects
Accept(c) ==
    /\ bpc = "serving" /\ listener = "open"
    /\ conns[c] = NoConn
    /\ conns' = [conns EXCEPT ![c] = [open |-> TRUE, h |-> "none"]]
    /\ UNCHANGED <<spc, sig, listener, errCh, elapsed, shutLog, tornDown>>
    /\ UNCHANGED <<reqVars, envVars, apiVars, archVars, gateVars, bootVars>>

\* a request arrives on an idle connection: the server starts its handler
Request(c) ==
    /\ bpc = "serving"
    /\ conns[c] = [open |-> TRUE, h |-> "none"]
    /\ conns' = [conns EXCEPT ![c].h = "go"]
    /\ UNCHANGED <<spc, sig, listener, errCh, elapsed, shutLog, tornDown>>
    /\ UNCHANGED <<reqVars, envVars, apiVars, archVars, gateVars, bootVars>>

\* frontControllerHandler.ServeHTTP calls frankenphp.ServeHTTP
EnterBridge(c) ==
    /\ bpc = "serving"
    /\ conns[c].h = "go"
    /\ conns' = [conns EXCEPT ![c].h = "php"]
    /\ UNCHANGED <<spc, sig, listener, errCh, elapsed, shutLog, tornDown>>
    /\ UNCHANGED <<reqVars, envVars, apiVars, archVars, gateVars, bootVars>>

\* a handler returns; the server keeps the connection unless it is shutting down
HandlerReturn(c) ==
    /\ bpc = "serving"
    /\ conns[c].h \in {"go", "php"}
    /\ conns' = [conns EXCEPT ![c] = [open |-> conns[c].open /\ ~inShutdown,
                                      h    |-> "none"]]
    /\ UNCHANGED <<spc, sig, listener, errCh, elapsed, shutLog, tornDown>>
    /\ UNCHANGED <<reqVars, envVars, apiVars, archVars, gateVars, bootVars>>

\* a client closes its idle connection
ClientClose(c) ==
    /\ bpc = "serving"
    /\ conns[c] = [open |-> TRUE, h |-> "none"]
    /\ conns' = [conns EXCEPT ![c] = NoConn]
    /\ UNCHANGED <<spc, sig, listener, errCh, elapsed, shutLog, tornDown>>
    /\ UNCHANGED <<reqVars, envVars, apiVars, archVars, gateVars, bootVars>>

\* signal.NotifyContext: an interrupt or SIGTERM cancels ctx
Signal ==
    /\ bpc = "serving" /\ ~sig
    /\ sig' = TRUE
    /\ UNCHANGED <<spc, listener, errCh, conns, elapsed, shutLog, tornDown>>
    /\ UNCHANGED <<reqVars, envVars, apiVars, archVars, gateVars, bootVars>>

\* srv.ListenAndServe fails on its own and sends its error
AcceptError ==
    /\ bpc = "serving" /\ listener = "open"
    /\ listener' = "closed"
    /\ errCh' = ErrAccept
    /\ UNCHANGED <<spc, sig, conns, elapsed, shutLog, tornDown>>
    /\ UNCHANGED <<reqVars, envVars, apiVars, archVars, gateVars, bootVars>>

\* srv.ListenAndServe returns http.ErrServerClosed after srv.Shutdown
ServeClosed ==
    /\ bpc = "serving" /\ listener = "closing"
    /\ listener' = "closed"
    /\ errCh' = ErrServerClosed
    /\ UNCHANGED <<spc, sig, conns, elapsed, shutLog, tornDown>>
    /\ UNCHANGED <<reqVars, envVars, apiVars, archVars, gateVars, bootVars>>

\* the select takes the case of errCh: serveWithShutdown returns
SelectErr ==
    /\ spc = "select" /\ errCh # NoErr
    /\ spc' = "returned"
    /\ bootErr' = listenError(errCh)
    /\ errCh' = NoErr
    /\ UNCHANGED <<sig, listener, conns, elapsed, shutLog, tornDown>>
    /\ UNCHANGED <<reqVars, envVars, apiVars, archVars, gateVars, bpc, ran>>

\* the select takes the case of ctx.Done(): the log line, the grace timer,
\* and the call of srv.Shutdown, which closes the listener and the idle
\* connections before it starts to poll
SelectDone ==
    /\ spc = "select" /\ sig
    /\ shutLog' = Append(shutLog, "shutdown requested, stopping server")
    /\ spc' = "shutdown"
    /\ elapsed' = 0
    /\ listener' = IF listener = "open" THEN "closing" ELSE listener
    /\ conns' = [c \in ConnIds |->
                    IF conns[c].h = "none" THEN NoConn ELSE conns[c]]
    /\ UNCHANGED <<sig, errCh, tornDown>>
    /\ UNCHANGED <<reqVars, envVars, apiVars, archVars, gateVars, bootVars>>

\* a second of the grace period passes while srv.Shutdown polls
Tick ==
    /\ spc = "shutdown" /\ elapsed < GraceSeconds
    /\ elapsed' = elapsed + 1
    /\ UNCHANGED <<spc, sig, listener, errCh, conns, shutLog, tornDown>>
    /\ UNCHANGED <<reqVars, envVars, apiVars, archVars, gateVars, bootVars>>

\* srv.Shutdown finds every connection closed and returns nil
ShutdownDrained ==
    /\ spc = "shutdown"
    /\ \A c \in ConnIds : ~conns[c].open
    /\ spc' = "recv"
    /\ UNCHANGED <<sig, listener, errCh, conns, elapsed, shutLog, tornDown>>
    /\ UNCHANGED <<reqVars, envVars, apiVars, archVars, gateVars, bootVars>>

ShutdownTimeout_noClose ==
    /\ spc = "shutdown" /\ elapsed = GraceSeconds
    /\ \E c \in ConnIds : conns[c].open
    /\ shutLog' = Append(shutLog, "http shutdown error: context deadline exceeded")
    /\ spc' = "recv"
    /\ UNCHANGED <<sig, listener, errCh, conns, elapsed, tornDown>>
    /\ UNCHANGED <<reqVars, envVars, apiVars, archVars, gateVars, bootVars>>

\* the grace period is over with a connection still busy: srv.Shutdown
\* returns the context's error, serveWithShutdown logs it and calls
\* srv.Close, which closes every connection and waits for no handler
ShutdownTimeout ==
    /\ spc = "shutdown" /\ elapsed = GraceSeconds
    /\ \E c \in ConnIds : conns[c].open
    /\ shutLog' = Append(shutLog, "http shutdown error: context deadline exceeded")
    /\ conns' = [c \in ConnIds |-> [conns[c] EXCEPT !.open = FALSE]]
    /\ spc' = "recv"
    /\ UNCHANGED <<sig, listener, errCh, elapsed, tornDown>>
    /\ UNCHANGED <<reqVars, envVars, apiVars, archVars, gateVars, bootVars>>

\* err := <-errCh after the shutdown: serveWithShutdown returns
RecvErr ==
    /\ spc = "recv" /\ errCh # NoErr
    /\ spc' = "returned"
    /\ bootErr' = listenError(errCh)
    /\ errCh' = NoErr
    /\ UNCHANGED <<sig, listener, conns, elapsed, shutLog, tornDown>>
    /\ UNCHANGED <<reqVars, envVars, apiVars, archVars, gateVars, bpc, ran>>

\* run() returns: its deferred shutdownPHPRuntime runs and the process ends
shutdownPHPRuntime ==
    /\ spc = "returned"
    /\ tornDown' = TRUE
    /\ spc' = "done"
    /\ bpc' = "exited"
    /\ UNCHANGED <<sig, listener, errCh, conns, elapsed, shutLog>>
    /\ UNCHANGED <<reqVars, envVars, apiVars, archVars, gateVars, bootErr, ran>>

\* the steps of serveWithShutdown, of the clock and of srv.ListenAndServe
\* that the scheduler and the passing of time take sooner or later
ShutdownProgress ==
    \/ SelectErr
    \/ SelectDone
    \/ Tick
    \/ ShutdownDrained
    \/ ShutdownTimeout
    \/ ServeClosed
    \/ RecvErr
    \/ shutdownPHPRuntime

(***************************************************************************)
(* The environment changing under the running server, and the              *)
(* storage-locations endpoint.                                             *)
(***************************************************************************)
\* os.Setenv while the server serves
Setenv ==
    /\ bpc = "serving" /\ pc = "idle"
    /\ \E e \in Environments \ {env} : env' = e
    /\ UNCHANGED bootEnv
    /\ UNCHANGED <<reqVars, srvVars, apiVars, archVars, gateVars, bootVars>>

\* storageLocationsHandler
storageLocationsHandler ==
    /\ bpc = "serving"
    /\ apiReq # NoApiReq /\ apiResp = NoApiResp
    /\ apiResp' =
          IF apiReq.method # "GET"
          THEN [status |-> 405, allow |-> "GET", body |-> "method not allowed\n",
                locations |-> <<>>]
          ELSE IF ~authorizeInternalAPI(env, apiReq)
          THEN [status |-> 401, allow |-> "", body |-> "unauthorized\n",
                locations |-> <<>>]
          ELSE [status |-> 200, allow |-> "", body |-> "locations",
                locations |->
                    filterStorageLocations(seedStorageLocations,
                                           TrimSpace(apiReq.parentID),
                                           ToLower(TrimSpace(apiReq.query)))]
    /\ UNCHANGED apiReq
    /\ UNCHANGED <<reqVars, envVars, srvVars, archVars, gateVars, bootVars>>

(***************************************************************************)
(* The materializer alone: EnsureExtracted called again and again on the   *)
(* same target, with any snapshot of Archives, the process dying inside    *)
(* a call or not.                                                          *)
(***************************************************************************)
InitArchive ==
    /\ disk \in InitDisks
    /\ archive \in Archives
    /\ epc = "idle" /\ idx = 0 /\ force = FALSE
    /\ didExtract = FALSE /\ err = ""
    /\ diskAtCall = disk /\ ioFailed = FALSE
    /\ extractedAll = FALSE /\ prev = NoPrev
    /\ dsn = "mysql:host=db" /\ esHost = "es"
    /\ gname = "" /\ attempt = 0 /\ slept = 0
    /\ gateErr = NoGateErr /\ reached = {}
    /\ bpc = "down" /\ bootErr = ""
    /\ ran = [materializer |-> 0, gate |-> 0]
    /\ atomDataDir = "" /\ fs = [files |-> {}, dirs |-> {}]
    /\ pc = "idle" /\ NoRequest
    /\ env = UnsetEnv /\ bootEnv = env /\ NotListening
    /\ apiReq = NoApiReq /\ apiResp = NoApiResp

NextArchive ==
    \/ CallEnsureExtracted
    \/ ExtractStart
    \/ ExtractEntry
    \/ ExtractFail
    \/ WriteMarker
    \/ WriteMarkerFail
    \/ Crash

SpecArchive == InitArchive /\ [][NextArchive]_vars

(***************************************************************************)
(* The readiness gate alone: waitForDependencies with any DSN and search   *)
(* host; every dial connects or fails.                                     *)
(***************************************************************************)
InitGate ==
    /\ Materialized
    /\ dsn \in DSNs /\ esHost \in ESHosts
    /\ gname = "" /\ attempt = 0 /\ slept = 0
    /\ gateErr = NoGateErr /\ reached = {}
    /\ bpc = "gate" /\ bootErr = ""
    /\ ran = [materializer |-> 1, gate |-> 0]
    /\ atomDataDir = "" /\ fs = [files |-> {}, dirs |-> {}]
    /\ pc = "idle" /\ NoRequest
    /\ env = UnsetEnv /\ bootEnv = env /\ NotListening
    /\ apiReq = NoApiReq /\ apiResp = NoApiResp

NextGate == waitForDependencies \/ DialOk \/ DialFail

SpecGate == InitGate /\ [][NextGate]_vars

(***************************************************************************)
(* The boot sequence of run() and the serving phase after it.              *)
(***************************************************************************)
BootArchives ==
    { [available |-> FALSE, entries |-> <<>>],
      ServedArchive,
      [available |-> TRUE,
       entries |-> <<[name |-> "lib/../../etc/passwd", type |-> "reg", data |-> "x"]>>] }

BootDSNs == {"mysql:host=db", "mysql:dbname=atom", ""}

InitBoot ==
    /\ disk \in InitDisks \cup {ServedDisk}
    /\ archive \in BootArchives
    /\ epc = "idle" /\ idx = 0 /\ force = FALSE
    /\ didExtract = FALSE /\ err = ""
    /\ diskAtCall = disk /\ ioFailed = FALSE
    /\ extractedAll = (disk = ServedDisk /\ archive = ServedArchive)
    /\ prev = NoPrev
    /\ dsn \in BootDSNs /\ esHost = "es"
    /\ gname = "" /\ attempt = 0 /\ slept = 0
    /\ gateErr = NoGateErr /\ reached = {}
    /\ bpc = "start" /\ bootErr = ""
    /\ ran = [materializer |-> 0, gate |-> 0]
    /\ atomDataDir = "" /\ fs = [files |-> {}, dirs |-> {}]
    /\ pc = "idle" /\ NoRequest
    /\ env = UnsetEnv /\ bootEnv = env /\ NotListening
    /\ apiReq = NoApiReq /\ apiResp = NoApiResp

NextBoot ==
    \/ resolveAtomRoot
    \/ ExtractStart
    \/ ExtractEntry
    \/ ExtractFail
    \/ WriteMarker
    \/ WriteMarkerFail
    \/ loadConfig
    \/ bootstrapApply
    \/ waitForDependencies
    \/ DialOk
    \/ DialFail
    \/ symfonyTools
    \/ initPHPRuntime
    \/ ListenAndServe
    \/ Receive
    \/ ServeHTTP
    \/ Finish

SpecBoot == InitBoot /\ [][NextBoot]_vars

(***************************************************************************)
(* The facade under a changing environment: requests of every method, the  *)
(* route log switched on or off, os.Setenv between requests.               *)
(***************************************************************************)
\* the filesystem states the facade runs over: nothing but the roots, or a
\* static asset, a plain file and an overlay download
FacadeFs ==
    { [files |-> {}, dirs |-> {}],
      [files |-> {Join(phpRoot, "css/x.png"), Join(phpRoot, "foo"),
                  Join(DataDir, "downloads/f.pdf")},
       dirs |-> {}] }

InitFacade ==
    /\ atomDataDir = DataDir
    /\ fs \in FacadeFs
    /\ pc = "idle"
    /\ NoRequest
    /\ Serving
    /\ env \in Environments /\ bootEnv = env
    /\ Listening
    /\ apiReq = NoApiReq /\ apiResp = NoApiResp

NextFacade == Receive \/ ServeHTTP \/ Finish \/ Setenv

SpecFacade == InitFacade /\ [][NextFacade]_vars

(***************************************************************************)
(* The server from the moment it listens to the end of the process.  The   *)
(* steps of serveWithShutdown, the clock and srv.ListenAndServe are taken  *)
(* sooner or later; clients, handlers and signals are under no obligation. *)
(***************************************************************************)
InitShutdown ==
    /\ atomDataDir = "" /\ fs = [files |-> {}, dirs |-> {}]
    /\ pc = "idle" /\ NoRequest
    /\ Serving
    /\ env = UnsetEnv /\ bootEnv = env /\ Listening
    /\ apiReq = NoApiReq /\ apiResp = NoApiResp

NextShutdown ==
    \/ \E c \in ConnIds : Accept(c)
    \/ \E c \in ConnIds : Request(c)
    \/ \E c \in ConnIds : EnterBridge(c)
    \/ \E c \in ConnIds : HandlerReturn(c)
    \/ \E c \in ConnIds : ClientClose(c)
    \/ Signal
    \/ AcceptError
    \/ ServeClosed
    \/ SelectErr
    \/ SelectDone
    \/ Tick
    \/ ShutdownDrained
    \/ ShutdownTimeout
    \/ RecvErr
    \/ shutdownPHPRuntime

SpecShutdown == InitShutdown /\ [][NextShutdown]_vars /\ WF_vars(ShutdownProgress)

(***************************************************************************)
(* The storage-locations endpoint, given any request of ApiRequests under  *)
(* any environment of ApiEnvironments.                                     *)
(***************************************************************************)
ApiEnvironments ==
    [VALENCE_LOG_ROUTES : {""}, ATOM_VALENCE_INTERNAL_TOKEN : {"", " ", "s3cret", " s3cret "}]

ApiRequests ==
    [method : Methods,
     authorization : {"", "Bearer s3cret", "Bearer wrong", "bearer s3cret", "s3cret"},
     parentID : {"", "loc_range_a", " loc_range_a", "loc_nowhere"},
     query : {"", "SHELF", "a ", "4"}]

InitStorage ==
    /\ atomDataDir = "" /\ fs = [files |-> {}, dirs |-> {}]
    /\ pc = "idle" /\ NoRequest
    /\ Serving
    /\ env \in ApiEnvironments /\ bootEnv = env
    /\ Listening
    /\ apiReq \in ApiRequests /\ apiResp = NoApiResp

SpecStorage == InitStorage /\ [][storageLocationsHandler]_vars

(***************************************************************************)
(* Properties of the routing decision engine.                              *)
(***************************************************************************)
Done == pc = "done"

\* a regular file exists at the request path p under root
FileAt(root, p) == (root \o p) \in fs.files

\* the rules above the direct-file check, as tests of a path
Rule1(p) == privatePathRe(p)
Rule2(p) == uploadsConfRe(p)
Rule3(p) == phpEntryRe(p)
Rule4(p) == staticAssetRe(p) \/ downloadAssetRe(p) \/ publicFileRe(p)
Rule5(p) == uploadsAssetRe(p)

\* a file the resolver may serve for p: overlay first, for downloads only
ResolvedAsset(p) ==
    IF atomDataDir # "" /\ downloadAssetRe(p) /\ FileAt(atomDataDir, p)
    THEN atomDataDir \o p
    ELSE IF FileAt(phpRoot, p) THEN phpRoot \o p
    ELSE ""

\* the ordered policy chain: (predicate, disposition) pairs, top to bottom
PolicyChain(p) ==
    << [matches |-> Rule1(p), disposition |-> "deny_private"],
       [matches |-> Rule2(p), disposition |-> "deny_uploads_conf"],
       [matches |-> Rule3(p), disposition |-> "php_entry"],
       [matches |-> Rule4(p),
        disposition |-> IF ResolvedAsset(p) # "" THEN "static" ELSE "static_missing"],
       [matches |-> Rule5(p), disposition |-> "uploads_front_controller"],
       [matches |-> FileAt(phpRoot, p), disposition |-> "deny_direct_file"],
       [matches |-> TRUE, disposition |-> "front_controller"] >>

FirstMatch(chain) ==
    LET i == CHOOSE k \in 1..Len(chain) :
                 chain[k].matches /\ \A j \in 1..(k - 1) : ~chain[j].matches
    IN  chain[i].disposition

\* C1: the decision of every request is the disposition of the first rule of
\* the ordered chain that matches its normalized path, in every filesystem
\* state.
C1_FirstMatchWins ==
    Done => \A chain \in {PolicyChain(reqPath)} : label = FirstMatch(chain)

\* a path matching rule 2 and rule 5 is denied by rule 2
C1_Witness ==
    Done /\ Rule2(reqPath) /\ Rule5(reqPath) /\ label = "deny_uploads_conf"

\* C2: a path under /private/ is answered by deny-private with status 404,
\* whether or not a file exists for it; nothing is served or forwarded.
C2_PrivateDenied ==
    (Done /\ Rule1(reqPath)) =>
        /\ label = "deny_private"
        /\ handler = "NotFoundHandler"
        /\ status = 404
        /\ assetPath = ""

C2_Witness ==
    Done /\ reqPath = "/private/foo" /\ FileAt(phpRoot, reqPath) /\ status = 404

\* C3: a path of a static family that rules 1-3 do not match is served, with
\* the immutable cache header, when the resolver finds a file, and is
\* static-not-found (404) when it does not; it never reaches a later rule.
C3_StaticNeverFallsThrough ==
    (Done /\ Rule4(reqPath) /\ ~Rule1(reqPath) /\ ~Rule2(reqPath) /\ ~Rule3(reqPath)) =>
        \A found \in {ResolvedAsset(reqPath)} :
            IF found # ""
            THEN /\ label = "static"
                 /\ assetPath = found
                 /\ cacheControl = "public, max-age=31536000, immutable"
            ELSE /\ label = "static_missing"
                 /\ status = 404
                 /\ assetPath = ""

C3_Witness ==
    /\ Done /\ reqPath = "/css/x.png" /\ label = "static"
    /\ assetPath = "/atom/css/x.png" /\ cacheControl # ""

\* C4: a path that rules 1-5 do not match is denied with deny-direct-file
\* (403) exactly when a regular file exists for it under the primary root;
\* a file under the overlay root alone leaves it forwarded.
C4_DirectFileDenied ==
    (/\ Done
     /\ ~Rule1(reqPath) /\ ~Rule2(reqPath) /\ ~Rule3(reqPath)
     /\ ~Rule4(reqPath) /\ ~Rule5(reqPath)) =>
        IF FileAt(phpRoot, reqPath)
        THEN label = "deny_direct_file" /\ status = 403 /\ handler # "fallback"
        ELSE label = "front_controller"

C4_Witness ==
    /\ Done /\ reqPath = "/foo" /\ FileAt(phpRoot, "/foo")
    /\ label = "deny_direct_file" /\ status = 403

\* the seven dispositions of the data model, by their labels
SevenDispositions ==
    {"static", "static_missing", "deny_private", "deny_uploads_conf",
     "deny_direct_file", "front_controller", "uploads_front_controller"}

NoRuleMatches(p) ==
    /\ ~Rule1(p) /\ ~Rule2(p) /\ ~Rule3(p) /\ ~Rule4(p) /\ ~Rule5(p)
    /\ ~FileAt(phpRoot, p)

HasDotDotSegment(p) == Contains("/" \o p \o "/", "/../")

\* C6: whatever the raw path, the path used for classification starts with
\* "/" and has no ".." segment.
C6_RootedNoTraversal ==
    Done => HasPrefix(reqPath, "/") /\ ~HasDotDotSegment(reqPath)

\* a raw path with a ".." segment that does not collapse to the root
C6_Witness ==
    Done /\ HasDotDotSegment(rawPath) /\ reqPath = "/private"

\* C7: each step of the normalizer applied to its own output changes
\* nothing, and the pipeline applied to a path it produced returns that path.
C7_Idempotent ==
    Done =>
        \A cleaned \in {cleanPath(rawPath)} :
        \A stripped \in {StripStep(cleaned)} :
        \A aliased \in {AliasStep(stripped)} :
            /\ cleanPath(cleaned) = cleaned
            /\ StripStep(stripped) = stripped
            /\ AliasStep(aliased) = aliased
            /\ Normalize(reqPath) = reqPath

FrontControllers == {"/index.php", "/qubit_dev.php"}

\* C8 as stated: a cleaned path <script>/<rest> is normalized to /<rest> and
\* the bare script name to "/"; when /<rest> matches no deny, static or
\* upload rule and has no file on disk the request is forwarded to the
\* legacy entry point.
C8_StrippedToRest ==
    Done =>
        \A cleaned \in {cleanPath(rawPath)} :
        \A script \in FrontControllers :
        \A rest \in {"/" \o TrimPrefix(cleaned, script \o "/")} :
            /\ cleaned = script => reqPath = "/"
            /\ HasPrefix(cleaned, script \o "/") =>
                  /\ reqPath = rest
                  /\ (/\ ~Rule1(rest) /\ ~Rule2(rest) /\ ~Rule4(rest)
                      /\ ~Rule5(rest) /\ ~FileAt(phpRoot, rest))
                        => label = "front_controller"

\* C8 amended: a cleaned path <script>/<rest> is normalized to /<rest>, or
\* to /storage/list when /<rest> is the alias /storage/location/list, and
\* the bare script name to "/"; when the normalized path matches no deny,
\* entry-point, static or upload rule and has no file on disk the request is
\* forwarded to the legacy entry point.
C8_StrippedThenAliased ==
    Done =>
        \A cleaned \in {cleanPath(rawPath)} :
        \A script \in FrontControllers :
        \A rest \in {"/" \o TrimPrefix(cleaned, script \o "/")} :
            /\ cleaned = script => reqPath = "/"
            /\ HasPrefix(cleaned, script \o "/") =>
                  /\ reqPath = IF rest = "/storage/location/list"
                               THEN "/storage/list" ELSE rest
                  /\ NoRuleMatches(reqPath) => label = "front_controller"

C8_Witness ==
    /\ Done /\ rawPath = "/index.php/foo" /\ reqPath = "/foo"
    /\ label = "front_controller"

(***************************************************************************)
(* Properties of the static asset resolver.                                *)
(***************************************************************************)
\* C9: a download path whose file exists under the overlay root and under
\* the primary root is served from the overlay root.
C9_OverlayWins ==
    (/\ Done /\ downloadAssetRe(reqPath)
     /\ atomDataDir # "" /\ FileAt(atomDataDir, reqPath) /\ FileAt(phpRoot, reqPath)) =>
        label = "static" /\ assetPath = atomDataDir \o reqPath

C9_Witness ==
    /\ Done /\ reqPath = "/downloads/f.pdf"
    /\ FileAt(DataDir, reqPath) /\ FileAt(phpRoot, reqPath)
    /\ assetPath = "/data/downloads/f.pdf"

\* C10: the resolver consults the overlay root only for download paths and
\* only when one is configured; it returns the first candidate that is a
\* regular file, never a directory, and reports not-found when there is none.
C10_ResolverCandidates ==
    (Done /\ label \in {"static", "static_missing"}) =>
        \A overlay \in {atomDataDir # "" /\ downloadAssetRe(reqPath)} :
        \A found \in {IF overlay /\ FileAt(atomDataDir, reqPath)
                       THEN atomDataDir \o reqPath
                       ELSE IF FileAt(phpRoot, reqPath) THEN phpRoot \o reqPath
                       ELSE ""} :
            /\ assetPath = found
            /\ assetPath \notin fs.dirs
            /\ label = "static_missing" <=> found = ""

\* a static path that is no download, with a file under the overlay root only
C10_Witness ==
    /\ Done /\ reqPath = "/css/x.png" /\ atomDataDir = DataDir
    /\ FileAt(DataDir, reqPath) /\ ~FileAt(phpRoot, reqPath)
    /\ label = "static_missing"

(***************************************************************************)
(* Properties of the archive materializer.                                 *)
(***************************************************************************)
Returned == epc = "returned"

MarkerPath == Join(Target, markerFile)

\* the marker file of d holds the digest of the snapshot
MarkerIsDigest(d) ==
    /\ MarkerPath \in DOMAIN d
    /\ d[MarkerPath] = FileNode(ArchiveHash(archive))

\* what d holds below the target
TargetEntries(d) == {p \in DOMAIN d : HasPrefix(p, Target \o "/")}

UpToDate(d) == Kind(d, Target) = "dir" /\ MarkerIsDigest(d)

\* a non-empty directory whose marker is missing or differs from the digest
Foreign(d) ==
    /\ Kind(d, Target) = "dir"
    /\ TargetEntries(d) # {}
    /\ ~MarkerIsDigest(d)

\* d holds what the entry h of the snapshot puts at its destination
HoldsEntry(d, h) ==
    \E dst \in {Join(Target, Clean(h.name))} :
        IF h.name = "" THEN TRUE
        ELSE IF h.type = "dir" THEN Kind(d, Physical(d, dst, TRUE)) = "dir"
        ELSE IF h.type = "symlink" THEN Kind(d, Physical(d, dst, FALSE)) # "none"
        ELSE IF h.type = "reg" THEN ReadFile(d, dst) = [ok |-> TRUE, data |-> h.data]
        ELSE TRUE

HoldsTree(d) ==
    \A i \in 1..Len(archive.entries) : HoldsEntry(d, archive.entries[i])

\* C11: from a missing or empty target, a call that meets no error
\* extracts (didExtract = TRUE) and leaves the tree and a marker equal to the
\* digest; the call after it, for either force, returns (FALSE, nil) and
\* leaves the disk as it found it.
C11_ExtractThenNoOp ==
    /\ (Returned /\ FreshTarget(diskAtCall) /\ err = "")
          => (didExtract /\ MarkerIsDigest(disk) /\ HoldsTree(disk))
    /\ (Returned /\ prev.called /\ prev.fresh /\ prev.err = "" /\ ~ioFailed)
          => (prev.didExtract /\ ~didExtract /\ err = "" /\ disk = diskAtCall)

C11_Witness ==
    /\ Returned /\ force
    /\ prev.called /\ prev.fresh /\ prev.err = "" /\ prev.didExtract
    /\ ~didExtract
    /\ Len(archive.entries) = 2

\* C12: a call that finds a directory whose marker equals the digest
\* returns (FALSE, nil) whatever force is, and the disk is as it was.
C12_MatchingMarkerNoOp ==
    (epc # "idle" /\ UpToDate(diskAtCall))
        => (Returned /\ ~didExtract /\ err = "" /\ disk = diskAtCall)

C12_Witness == Returned /\ force /\ UpToDate(diskAtCall) /\ ~didExtract

\* C13: a call with force = FALSE that finds a non-empty directory without
\* a matching marker returns (FALSE, ErrAtomRootExists) and the disk is as
\* it was.
C13_ConflictKeepsContent ==
    (epc # "idle" /\ Foreign(diskAtCall) /\ ~force)
        => (Returned /\ ~didExtract /\ err = ErrAtomRootExists /\ disk = diskAtCall)

C13_Witness ==
    /\ Returned /\ ~force /\ err = ErrAtomRootExists
    /\ MarkerPath \in DOMAIN disk

\* the snapshot puts what d holds at p: the marker, the destination of an
\* entry, or a directory above one
FromSnapshot(d, p) ==
    \/ p = MarkerPath /\ MarkerIsDigest(d)
    \/ \E i \in 1..Len(archive.entries) :
          \E h \in {archive.entries[i]} :
          \E dst \in {Join(Target, Clean(h.name))} :
              /\ h.name # ""
              /\ \/ dst = p /\ (h.type = "reg" => d[p] = FileNode(h.data))
                 \/ HasPrefix(dst, p \o "/") /\ d[p] = DirNode

\* C14: a call with force = TRUE that finds a non-empty directory without a
\* matching marker removes it and extracts: once the removal is done, no
\* path of the old content is on the disk unless the snapshot put it there,
\* and a return without error is (TRUE, nil) with a marker equal to the
\* digest.
C14_ForceReplaces ==
    (epc # "idle" /\ Foreign(diskAtCall) /\ force)
        => /\ (Returned /\ err = "") => (didExtract /\ MarkerIsDigest(disk))
           /\ (~Returned \/ err = "")
                 => \A p \in TargetEntries(diskAtCall) :
                       p \in DOMAIN disk => FromSnapshot(disk, p)

C14_Witness ==
    /\ Returned /\ force /\ didExtract /\ err = ""
    /\ Join(Target, "old.txt") \in DOMAIN diskAtCall
    /\ Join(Target, "index.php") \in DOMAIN disk

\* C15: in every state, crashes and errors included, a marker equal to the
\* digest is on the disk only if extractArchive wrote every entry; and the
\* no-op result (FALSE, nil) is returned only on such a tree.
C15_MarkerAfterEntries ==
    /\ MarkerIsDigest(disk) => (extractedAll /\ HoldsTree(disk))
    /\ (Returned /\ ~didExtract /\ err = "") => extractedAll

\* a call found the tree an interrupted extraction left and reported the
\* conflict
C15_Witness ==
    /\ Returned /\ err = ErrAtomRootExists
    /\ ~extractedAll
    /\ Join(Target, "index.php") \in DOMAIN disk
    /\ disk[Join(Target, "index.php")].data \in {"php", ""}
    /\ Len(archive.entries) = 2

InvalidName(name) ==
    /\ name # ""
    /\ \E cleanName \in {Clean(name)} :
          HasPrefix(cleanName, "..") \/ HasPrefix(cleanName, "/")

\* C16: the round of the loop that meets an entry whose cleaned name starts
\* with ".." or is absolute changes nothing on the disk and ends the call
\* with an error and didExtract = FALSE; after the error of that entry
\* there is no marker equal to the digest.
C16_InvalidEntryRejected ==
    /\ [][(epc = "entries" /\ InvalidName(archive.entries[idx].name))
             => /\ disk' = disk
                /\ epc' \in {"returned", "idle"}
                /\ epc' = "returned" => (~didExtract' /\ err' # "")]_vars
    /\ [](Returned /\ err = ErrInvalidPath
             => ~didExtract /\ ~MarkerIsDigest(disk))

C16_Witness ==
    /\ Returned /\ err = ErrInvalidPath
    /\ Len(archive.entries) = 2
    /\ archive.entries[2].name = "lib/../../etc/passwd"
    /\ Join(Target, "index.php") \in DOMAIN disk
    /\ "/etc/passwd" \notin DOMAIN disk

(***************************************************************************)
(* Properties of the readiness gate and of the boot sequence.              *)
(***************************************************************************)
GateTargets == {"mysql", "elasticsearch"}

\* how far the gate is: the dials behind it, counting Attempts + 1 for the
\* target it is done with
GateRank ==
    IF bpc = "gate" THEN 0
    ELSE IF bpc = "probing"
    THEN 1 + attempt + (IF gname = "mysql" THEN 0 ELSE Attempts + 1)
    ELSE 2 * Attempts + 3

\* C17: the gate probes mysql, then elasticsearch; a target gets at most
\* Attempts dials, a failed dial is followed by a sleep of DelaySeconds; a
\* dial that connects ends the probing of its target and the gate moves on;
\* elasticsearch is probed only after mysql was reached; a target that
\* fails Attempts dials ends run() with an error that names the target, its
\* address and the number of attempts; the gate succeeds only when both
\* targets were reached; and the gate ends: every step of it raises
\* GateRank, which is bounded, and a dial is always possible while the
\* gate probes.
C17_GateProbesInOrder ==
    /\ [](bpc = "probing" => (gname \in GateTargets /\ attempt < Attempts))
    /\ [](slept = IF bpc \in {"probing", "exited"} /\ attempt > 0
                  THEN DelaySeconds ELSE 0)
    /\ [](gname = "elasticsearch" => "mysql" \in reached)
    /\ []("elasticsearch" \in reached => "mysql" \in reached)
    /\ [][(bpc = "probing" /\ reached' # reached)
             => /\ reached' = reached \cup {gname}
                /\ attempt' = 0
                /\ IF gname = "mysql"
                   THEN gname' = "elasticsearch" /\ bpc' = "probing"
                   ELSE gname' = "" /\ bpc' = "symfony"]_vars
    /\ [](gateErr.msg = "not reachable"
             => /\ bpc = "exited" /\ bootErr = "dependency check failed"
                /\ gateErr.name = gname /\ gname \notin reached
                /\ gateErr.addr = GateAddr(gname)
                /\ attempt = Attempts /\ gateErr.attempts = Attempts)
    /\ [](bpc = "symfony" => (reached = GateTargets /\ gateErr = NoGateErr))
    /\ [][(bpc = "gate" \/ bpc = "probing") => GateRank' > GateRank]_vars
    /\ [](GateRank <= 2 * Attempts + 3)

\* mysql was reached after failed dials, elasticsearch never
C17_Witness ==
    /\ bpc = "exited"
    /\ gateErr.name = "elasticsearch" /\ gateErr.attempts = Attempts
    /\ reached = {"mysql"}
    /\ dsn = "mysql:host=db;port=3307;dbname=atom"

AfterMaterializer ==
    {"bootstrap", "gate", "probing", "symfony", "phpinit", "listen", "serving"}

AfterGate == {"symfony", "phpinit", "listen", "serving"}

\* C18: run() is past the materializer only when EnsureExtracted returned,
\* and past the gate only when both dependencies were reached without a
\* gate error; a gate error ends run(), which then stays ended; run()
\* enters the materializer and the gate at most once; a request is in
\* flight only while the listener is open; and once it is open no step
\* changes the state of the materializer or of the gate.
C18_BootOrder ==
    /\ [](bpc \in AfterMaterializer => (epc = "returned" /\ ran.materializer = 1))
    /\ [](bpc \in AfterGate
             => (reached = GateTargets /\ gateErr = NoGateErr /\ ran.gate = 1))
    /\ [](gateErr # NoGateErr => bpc = "exited")
    /\ [](ran.materializer <= 1 /\ ran.gate <= 1)
    /\ [](pc # "idle" => bpc = "serving")
    /\ [][bpc = "exited" => bpc' = "exited"]_vars
    /\ [][bpc = "serving"
             => (bpc' = "serving" /\ UNCHANGED <<archVars, gateVars, ran>>)]_vars

C18_Witness ==
    /\ bpc = "serving" /\ pc = "done"
    /\ didExtract /\ MarkerIsDigest(disk)
    /\ reached = GateTargets

\* C19 as stated: after EnsureExtracted reported ErrAtomRootExists the
\* listener is never open.
C19_ConflictFatal == err = ErrAtomRootExists => bpc # "serving"

\* C19: when EnsureExtracted returned ErrAtomRootExists, loadConfig leaves
\* the disk as it is and run() goes on exactly when the target holds a
\* front controller; any other error of EnsureExtracted ends run().
C19_ConflictTolerated ==
    /\ [][(bpc = "ensureAtomRoot" /\ epc = "returned" /\ err = ErrAtomRootExists)
             => /\ disk' = disk
                /\ IF ReadFile(disk, Join(Target, "index.php")).ok
                   THEN bpc' = "bootstrap" ELSE bpc' = "exited"]_vars
    /\ []((epc = "returned" /\ err \notin {"", ErrAtomRootExists})
             => bpc \in {"ensureAtomRoot", "exited"})

C19_Witness ==
    /\ bpc = "serving"
    /\ err = ErrAtomRootExists
    /\ ~MarkerIsDigest(disk)

(***************************************************************************)
(* Properties of the responses to failed requests.                         *)
(***************************************************************************)
\* C20: a request the bridge rejects is answered 400, one the bridge fails
\* to build or to execute 502, a missing static asset 404, a denial by the
\* upload-configuration or the direct-file rule 403; the listener stays
\* open, the answered request is followed by the idle server, and the idle
\* server takes the next request.
C20_RequestErrorsAnswered ==
    /\ [](Done => /\ bridge = "rejected" => status = 400
                  /\ bridge \in {"build_error", "exec_error"} => status = 502
                  /\ label = "static_missing" => status = 404
                  /\ label \in {"deny_uploads_conf", "deny_direct_file"}
                        => status = 403)
    /\ [](bpc = "serving")
    /\ [][Done => pc' = "idle"]_vars
    /\ [](pc = "idle" => ENABLED Receive)

C20_Witness == Done /\ bridge = "rejected" /\ status = 400

\* the elements of a sequence
Range(q) == {q[i] : i \in 1 .. Len(q)}

(***************************************************************************)
(* Properties of serveWithShutdown.                                        *)
(***************************************************************************)
\* serveWithShutdown took the case of ctx.Done()
ShutdownRequested == "shutdown requested, stopping server" \in Range(shutLog)

\* serveWithShutdown logged that the drain failed
DrainFailureLogged ==
    "http shutdown error: context deadline exceeded" \in Range(shutLog)

AllConnsClosed == \A c \in ConnIds : ~conns[c].open

\* serveWithShutdown returned
ServeReturned == spc \in {"returned", "done"}

\* C21: after a signal the server accepts no new connection and drains for
\* at most GraceSeconds (20) seconds; a drain that does not finish in time
\* is logged and every remaining connection is closed by force; after a
\* signal serveWithShutdown always returns; and shutdownPHPRuntime runs
\* only once the listener is closed and, when a shutdown was requested,
\* every connection was drained or closed by force.
C21_GracefulShutdown ==
    /\ [](inShutdown => listener # "open")
    /\ [][inShutdown => \A c \in ConnIds : conns'[c].open => conns[c].open]_vars
    /\ [](spc = "shutdown" => elapsed <= GraceSeconds)
    /\ [][(spc = "shutdown" /\ spc' # "shutdown")
             => \/ AllConnsClosed /\ UNCHANGED <<conns, shutLog>>
                \/ /\ elapsed = GraceSeconds
                   /\ DrainFailureLogged' /\ AllConnsClosed']_vars
    /\ [](DrainFailureLogged => ShutdownRequested /\ elapsed = GraceSeconds)
    /\ [](tornDown => /\ listener = "closed"
                       /\ ShutdownRequested => AllConnsClosed)
    /\ (sig ~> ServeReturned)

\* the grace period ran out with a connection busy, and the process ended
C21_Witness ==
    /\ tornDown /\ sig /\ elapsed = GraceSeconds
    /\ DrainFailureLogged /\ AllConnsClosed

\* C27: when shutdownPHPRuntime has run, no handler goroutine is inside
\* frankenphp.ServeHTTP.
C27_NoHandlerInBridgeAtTeardown ==
    tornDown => \A c \in ConnIds : conns[c].h # "php"

(***************************************************************************)
(* Properties of the facade: the request handed to the legacy runtime, the *)
(* frame of request handling, the environment, the route log.              *)
(***************************************************************************)
ForwardingLabels == {"php_entry", "uploads_front_controller", "front_controller"}

\* C22: a request with an entry-point, uploaded-artifact or default
\* disposition, and no other, is handed to the legacy runtime; the request
\* synthesized for it has URL path and SCRIPT_NAME /index.php,
\* SCRIPT_FILENAME the configured front controller, the application root
\* as document root, and as PATH_INFO the path the decision was made on.
C22_FrontControllerIdentity ==
    Done =>
        /\ (label \in ForwardingLabels) = (phpReq # NoPhpReq)
        /\ (label \in ForwardingLabels) = (bridge # "")
        /\ label \in ForwardingLabels =>
              /\ phpReq.path = "/index.php"
              /\ phpReq.rawPath = "/index.php"
              /\ phpReq.scriptName = "/index.php"
              /\ phpReq.scriptFilename = Join(phpRoot, "index.php")
              /\ phpReq.documentRoot = phpRoot
              /\ phpReq.pathInfo = reqPath
              /\ reqPath = Normalize(rawPath)
              /\ label = decideRoute(fs, atomDataDir, phpReq.pathInfo).label

\* an uploaded artifact the legacy runtime served, its path in PATH_INFO only
C22_Witness ==
    /\ Done /\ label = "uploads_front_controller" /\ bridge = "ok"
    /\ phpReq.pathInfo = "/uploads/r/a" /\ phpReq.path = "/index.php"

C24_EnvReadAtBootOnly ==
    Done => routeLog = logRouteDecision(bootEnv, label, method, reqPath, status, bytes)

\* the value v has a character that is not a space
NotBlank(v) == \E i \in 1 .. Len(v) : SubSeq(v, i, i) # " "

\* the status the server sent for the calls ops: the first WriteHeader, or
\* 200 when the body came first or nothing was set
SentStatus(ops) ==
    IF ops = <<>> \/ Head(ops).op = "Write" THEN 200 ELSE Head(ops).code

\* the body bytes the calls ops wrote
RECURSIVE BytesWritten(_)
BytesWritten(ops) ==
    IF ops = <<>> THEN 0
    ELSE (IF Head(ops).op = "Write" THEN Len(Head(ops).body) ELSE 0)
         + BytesWritten(Tail(ops))

\* C29: with VALENCE_LOG_ROUTES set to a non-blank value a handled request
\* has exactly one log record, with its label, method, normalized path, the
\* status sent and the body bytes written; there is no record before the
\* handler has run, and none at all when the variable is unset or blank.
C29_OneRecordPerRequest ==
    /\ pc # "done" => routeLog = <<>>
    /\ Done =>
          \A ops \in {handlerOps(handler, bridge, assetPath, method)} :
              IF NotBlank(env.VALENCE_LOG_ROUTES)
              THEN routeLog = <<[route  |-> label,
                                 method |-> method,
                                 path   |-> Normalize(rawPath),
                                 status |-> SentStatus(ops),
                                 bytes  |-> BytesWritten(ops)]>>
              ELSE routeLog = <<>>

\* a script of the legacy runtime that set no status: the record says 200
C29_Witness ==
    /\ Done /\ bridge = "ok" /\ Len(routeLog) = 1
    /\ routeLog[1].status = 200 /\ routeLog[1].bytes > 0
    /\ routeLog[1].route = "front_controller" /\ routeLog[1].method = "HEAD"

(***************************************************************************)
(* Properties of the normalizer and of the materializer that the code      *)
(* does not have.                                                          *)
(***************************************************************************)
\* p without its leading front-controller prefixes
RECURSIVE Remainder(_)
Remainder(p) ==
    IF HasPrefix(p, "/index.php/")
    THEN Remainder(SubSeq(p, Len("/index.php/"), Len(p)))
    ELSE IF HasPrefix(p, "/qubit_dev.php/")
    THEN Remainder(SubSeq(p, Len("/qubit_dev.php/"), Len(p)))
    ELSE p

DenyLabels == {"deny_private", "deny_uploads_conf"}

\* C25: a raw path made of one or more front-controller prefixes and a
\* path p under /private/ or matching the upload-configuration pattern
\* gets the deny disposition p gets.
C25_DenyNotBypassed ==
    Done =>
        \A p \in {Remainder(rawPath)} :
        \A own \in {decideRoute(fs, atomDataDir, Normalize(p)).label} :
            (p # rawPath /\ (privatePathRe(p) \/ uploadsConfRe(p)) /\ own \in DenyLabels)
                => label = own

\* every entry of the snapshot is a directory, a link or a regular file
\* whose cleaned name is relative and does not start with ".."
ValidArchive ==
    \A i \in 1 .. Len(archive.entries) :
        /\ archive.entries[i].type \in {"dir", "symlink", "reg"}
        /\ archive.entries[i].name # ""
        /\ ~InvalidName(archive.entries[i].name)

InsideTarget(p) == p = Target \/ HasPrefix(p, Target \o "/")

\* C26: whatever a snapshot of valid entries holds, the disk outside the
\* target stays as it was: nothing is created or written there.
C26_NothingWrittenOutside ==
    ValidArchive =>
        \A p \in DOMAIN disk :
            ~InsideTarget(p) => (p \in DOMAIN OutsideDisk /\ disk[p] = OutsideDisk[p])

\* p is rooted and has no empty, "." or ".." segment and no trailing slash
PlainPath(p) ==
    /\ HasPrefix(p, "/") /\ p # "/"
    /\ \A seg \in Range(Split(SubSeq(p, 2, Len(p)), "/")) : seg \notin {"", ".", ".."}

\* C28: cleanPath returns a plain path unchanged.
C28_PlainPathUnchanged ==
    Done => (PlainPath(rawPath) => cleanPath(rawPath) = rawPath)

(***************************************************************************)
(* Properties of the storage-locations endpoint.                           *)
(***************************************************************************)
Answered == apiResp # NoApiResp

\* the seed locations, in seed order, under the parent (when given) whose
\* label contains q whatever the case (when given)
ExpectedLocations(parent, q) ==
    SelectSeq(seedStorageLocations,
              LAMBDA l :
                  /\ parent # "" => (l.hasParent /\ l.parentID = parent)
                  /\ q # "" => Contains(ToLower(l.label), ToLower(q)))

\* C30 as stated: a request that is not a GET gets 405 and Allow: GET
\* whatever its Authorization header; with ATOM_VALENCE_INTERNAL_TOKEN set,
\* a GET whose Authorization header is not "Bearer " and that value gets
\* 401 and no location; a GET that passes gets the seed locations whose
\* parent id is the parent_id parameter and whose label contains the query
\* parameter, as they were sent.
C30_ExactParameters ==
    Answered =>
        \A token \in {env.ATOM_VALENCE_INTERNAL_TOKEN} :
            /\ apiReq.method # "GET"
                  => /\ apiResp.status = 405 /\ apiResp.allow = "GET"
                     /\ apiResp.locations = <<>>
            /\ (apiReq.method = "GET" /\ token # ""
                   /\ apiReq.authorization # "Bearer " \o token)
                  => apiResp.status = 401 /\ apiResp.locations = <<>>
            /\ apiResp.status \notin {405, 401}
                  => /\ apiResp.status = 200
                     /\ apiResp.locations =
                            ExpectedLocations(apiReq.parentID, apiReq.query)

\* C30: the same with the token, the Authorization header and both
\* parameters taken without the spaces around them, a blank token counting
\* as none and a blank parameter as not given.
C30_TrimmedParameters ==
    Answered =>
        \A token \in {TrimSpace(env.ATOM_VALENCE_INTERNAL_TOKEN)} :
            /\ apiReq.method # "GET"
                  => /\ apiResp.status = 405 /\ apiResp.allow = "GET"
                     /\ apiResp.locations = <<>>
            /\ (apiReq.method = "GET" /\ token # ""
                   /\ TrimSpace(apiReq.authorization) # "Bearer " \o token)
                  => apiResp.status = 401 /\ apiResp.locations = <<>>
            /\ apiResp.status \notin {405, 401}
                  => /\ apiResp.status = 200 /\ apiResp.allow = ""
                     /\ apiReq.method = "GET"
                     /\ apiResp.locations =
                            ExpectedLocations(TrimSpace(apiReq.parentID),
                                              TrimSpace(apiReq.query))

\* an authorized GET that asks for the shelves of a range, in upper case
C30_Witness ==
    /\ Answered /\ apiResp.status = 200
    /\ TrimSpace(env.ATOM_VALENCE_INTERNAL_TOKEN) = "s3cret"
    /\ apiReq.authorization = "Bearer s3cret"
    /\ apiReq.query = "SHELF" /\ apiReq.parentID = "loc_range_a"
    /\ Len(apiResp.locations) = 2
    /\ apiResp.locations[1].id = "loc_shelf_3"
    /\ apiResp.locations[2].id = "loc_shelf_4"

====
